---- MODULE Spec2Model ----
(***************************************************************************)
(* photon-gun: the gRPC control service (src/src/grpc/mod.rs) over the     *)
(* Postgres store (src/src/db.rs) and the registry of running timer tasks  *)
(* (Server.handlers, a tokio Mutex<HashMap<i32, JoinHandle<()>>>).         *)
(*                                                                         *)
(* Every request handler is a process; each of its steps is one .await of  *)
(* the handler that touches shared state (a store statement, or the        *)
(* section of code run while the registry guard is held and no store call  *)
(* is awaited).                                                            *)
(***************************************************************************)
EXTENDS Integers, FiniteSets, Sequences, TLC

\* ---------------------------------------------------------------- bounds
NumProcs == 2
MaxId == 2
MaxRequests == 3
MaxTime == 2
MaxExecs == 3

Procs == 1..NumProcs
Ids == 1..MaxId
Intervals == {1, 2}
TaskIds == 1..(MaxId + MaxRequests)
Times == 0..MaxTime
\* What the healthchecks.enabled column yields for an INSERT that does not
\* bind it.  initialize_tables issues CREATE TABLE IF NOT EXISTS with
\* `enabled BOOL NOT NULL` and no DEFAULT: on a table made by that statement
\* the value is NULL and the row is rejected ("none"); on a table that was
\* already there the statement is a no-op and the table's own default holds.
ColumnDefaults == {"none", "false", "true"}

VARIABLES
    store,          \* healthchecks table: id -> row
    nextId,         \* the SERIAL sequence of healthchecks.id
    enabledDefault, \* column default of healthchecks.enabled in the live table
    handlers,       \* Server.handlers: id -> task id of the held JoinHandle, 0 = no key
    tasks,          \* timer tasks spawned and not aborted: set of [tid, id]
    nextTask,       \* fresh task identities
    lock,           \* holder of the handlers mutex, 0 = free
    pc,             \* per request handler: the step it is about to take
    op,             \* per request handler: the RPC it serves
    arg,            \* per request handler: the id of the request (0 for Create before insert)
    check,          \* per request handler: the local `check`
    result,         \* per request handler: the response of the finished request
    started,        \* per request handler: the task this request spawned, 0 = none
    reqs,           \* requests accepted so far
    now,            \* the runtime's clock, in seconds
    timers,         \* per timer task: its tokio Interval (next deadline, period)
    execs,          \* executions dispatched and not finished: set of [tid, id, at]
    dispatched,     \* executions dispatched so far
    results,        \* healthcheck_results table, in insertion order
    query,          \* per request handler: the ListQuery / ResultQuery it serves
    lua,            \* the Lua interpreters alive: set of [key, libs, globals]
    main,           \* the config-driven server's main: its config, loop position, fate
    codec,          \* a table name being encoded or decoded: input, stage, outputs
    agent           \* the agent binary: executions, result channel, listener

vars == <<store, nextId, enabledDefault, handlers, tasks, nextTask, lock,
          pc, op, arg, check, result, started, reqs,
          now, timers, execs, dispatched, results, query, lua, main, codec, agent>>

\* the scheduler's part of the state
sched == <<now, timers, execs, dispatched, results>>

\* the part of the state that belongs to the other binaries
host == <<main, codec, agent>>

\* ------------------------------------------------------------ data shapes
NoRow == [present |-> FALSE, interval |-> 0, enabled |-> FALSE]
Row(interval, enabled) == [present |-> TRUE, interval |-> interval, enabled |-> enabled]
NoCheck == [id |-> 0, interval |-> 0, enabled |-> FALSE]
Healthcheck(id, interval, enabled) == [id |-> id, interval |-> interval, enabled |-> enabled]

\* impl From<HealthcheckSchema> for Healthcheck
FromSchema(id, row) == Healthcheck(id, row.interval, row.enabled)

NoResult == [code |-> "None", msg |-> "", check |-> NoCheck, list |-> {}, rows |-> <<>>]
OkResponse(c) == [code |-> "Ok", msg |-> "", check |-> c, list |-> {}, rows |-> <<>>]
\* Status::new(code, message)
Status(code, msg) == [code |-> code, msg |-> msg, check |-> NoCheck, list |-> {}, rows |-> <<>>]

\* Option<T> of a request field
None == [some |-> FALSE, val |-> 0]
Some(v) == [some |-> TRUE, val |-> v]
\* Option::unwrap_or
unwrap_or(o, d) == IF o.some THEN o.val ELSE d
\* Option<bool>, with the same shape
NoneBool == [some |-> FALSE, val |-> FALSE]

\* Option<String>: a string is its sequence of bytes
NoString == [some |-> FALSE, val |-> <<>>]
SomeString(bytes) == [some |-> TRUE, val |-> bytes]

\* no table name in hand
NoCodec == [mode |-> "none", name |-> <<>>, given |-> <<>>, stage |-> "done",
            encoded |-> <<>>, decoded |-> NoString]

\* main() of a process that was not started from a config file
NoConfig == [basic |-> <<>>, luxury |-> <<>>]
NoMain == [file |-> NoConfig, conf |-> NoConfig, at |-> "serving", next |-> 1,
           alive |-> TRUE, panic |-> ""]

\* the agent before any check has run: mpsc::unbounded_channel() just made,
\* the listener at receiver.recv().await
NoAgent == [running |-> {}, made |-> 0, chan |-> <<>>, queued |-> <<>>,
            at |-> "recv", taken |-> <<>>, handled |-> <<>>]

\* ListQuery { enabled, limit } / ResultQuery { id, limit }
NoQuery == [enabled |-> NoneBool, limit |-> None]
ListQuery(enabled, limit) == [enabled |-> enabled, limit |-> limit]

\* ------------------------------------------------------------- the store
\* sqlx fetch_one on an empty result set is Err(sqlx::Error::RowNotFound)
get_healthcheck(s, id) ==
    IF s[id].present THEN [ok |-> TRUE, check |-> FromSchema(id, s[id])]
                     ELSE [ok |-> FALSE, check |-> NoCheck]

\* INSERT INTO healthchecks (name, endpoint, interval) ... : enabled is not bound
insert_row(c, dflt) == Row(c.interval, dflt = "true")

\* the NOT NULL constraint on healthchecks.enabled
insert_accepted(dflt) == dflt # "none"

\* an update that is never issued
enable_healthcheck_skipped(s, id) == s

\* UPDATE healthchecks SET enabled=true WHERE id=$1 (no row: zero rows updated, Ok)
enable_healthcheck(s, id) ==
    IF s[id].present THEN [s EXCEPT ![id].enabled = TRUE] ELSE s

\* UPDATE healthchecks SET enabled=false WHERE id=$1
disable_healthcheck(s, id) ==
    IF s[id].present THEN [s EXCEPT ![id].enabled = FALSE] ELSE s

\* DELETE FROM healthchecks WHERE id=$1 RETURNING healthchecks.*
delete_healthcheck(s, id) == [s EXCEPT ![id] = NoRow]

\* ----------------------------------------------------------- the registry
\* a lookup that never finds the key
contains_key_never(h, id) == FALSE

\* guard.contains_key(&id)
contains_key(h, id) == h[id] # 0

\* a handle that is dropped without being aborted: the task keeps running
abort_forgotten(ts, tid) == ts

\* handle.abort(): the timer task of that handle stops
abort(ts, tid) == {t \in ts : t.tid # tid}

\* HealthcheckService::spawn: tokio::task::spawn of the timer loop
spawn(ts, tid, id) == ts \cup {[tid |-> tid, id |-> id]}

\* guard.insert(id, handle): HashMap::insert replaces the value of an existing
\* key; the replaced JoinHandle is dropped, which detaches its task and does
\* not abort it
guard_insert(h, id, tid) == [h EXCEPT ![id] = tid]

\* guard.remove(&id)
guard_remove(h, id) == [h EXCEPT ![id] = 0]

\* ------------------------------------------------------------- scheduling
NoTimer == [deadline |-> 0, period |-> 0]

\* `self.interval as u64` on the i32 of the request: a negative value wraps to
\* 2^64 + iv seconds, a period that ends beyond any time the clock reaches
FarFuture == MaxTime + 1
as_u64(iv) == IF iv < 0 THEN FarFuture ELSE iv

\* tokio::time::interval(Duration::from_secs(interval)) made at time t: the
\* first tick completes at once, the following ones every period
interval(iv, t) == [deadline |-> t, period |-> as_u64(iv)]

\* Interval::tick() returned: the next deadline is one period after the
\* deadline that just fired (MissedTickBehavior::Burst, the default), not after
\* the time the tick was taken or the execution ended
tick(tm) == [tm EXCEPT !.deadline = tm.deadline + tm.period]

\* an aborted timer task that takes its executions down with it
detached_aborted(es, tid) == {e \in es : e.tid # tid}

\* tokio::task::spawn(async move { check.run().await }) in the loop drops the
\* JoinHandle it gets: the execution is a task of its own, and aborting the
\* timer task tid leaves it running
detached(es, tid) == es

\* a foreign key without ON DELETE CASCADE that lets the rows stay
on_delete_no_action(rs, id) == rs

\* healthcheck_results.check_id REFERENCES healthchecks(id) ON DELETE CASCADE
on_delete_cascade(rs, id) == SelectSeq(rs, LAMBDA r : r.id # id)

\* the timer loop of task tid waiting for the executions it dispatched
loop_awaits_joined(es, tid) == \E e \in es : e.tid = tid

\* the loop body calls tokio::task::spawn(..) and goes back to
\* interval.tick().await without awaiting the execution: nothing in flight
\* holds the loop of task tid back
loop_awaits(es, tid) == FALSE

\* executions that run on the worker that drives the timers
worker_occupied_inline(es, tid) == \E e \in es : e.tid # tid

\* an HTTP execution is an async task that yields at its awaits, a script
\* evaluation is handed to tokio::task::spawn_blocking: no execution keeps the
\* worker that polls the timer of task tid
worker_occupied(es, tid) == FALSE

\* ----------------------------------------------------------------- probes
\* what one execution meets: the answer to its GET, or what the script did
NoOutcome == [kind |-> "none", status |-> 0, type |-> "", text |-> ""]
HttpResponse(st) == [kind |-> "response", status |-> st, type |-> "", text |-> ""]
TransportError(text) == [kind |-> "transport", status |-> 0, type |-> "", text |-> text]
Returned(type, text) == [kind |-> "returned", status |-> 0, type |-> type, text |-> text]
Raised(text) == [kind |-> "raised", status |-> 0, type |-> "", text |-> text]
BridgeError(text) == [kind |-> "nobridge", status |-> 0, type |-> "", text |-> text]
BodyError == [kind |-> "bodyerror", status |-> 0, type |-> "", text |-> ""]

Statuses == {100, 101, 199, 200, 201, 202, 204, 299, 300, 301, 304, 400, 404, 499,
             500, 503, 599}
HttpOutcomes ==
    {HttpResponse(st) : st \in Statuses}
        \cup {TransportError("error sending request"), TransportError("operation timed out")}
LuaValues ==
    {<<"string", "Alles gut">>, <<"string", "">>, <<"number", "42">>, <<"nil", "">>,
     <<"boolean", "">>, <<"table", "">>}
ScriptOutcomes ==
    {Returned(v[1], v[2]) : v \in LuaValues}
        \cup {Raised("runtime error: This failed"), Raised("syntax error"),
              BridgeError("memory error"), BodyError}
Outcomes == HttpOutcomes \cup ScriptOutcomes
\* the outcomes drawn where several executions are in flight
SampleOutcomes == {HttpResponse(200), HttpResponse(404), Returned("string", "Alles gut")}

Ok(msg) == [ok |-> TRUE, panic |-> FALSE, value |-> msg]
Err(err) == [ok |-> FALSE, panic |-> FALSE, value |-> err]
Panic == [ok |-> FALSE, panic |-> TRUE, value |-> ""]

\* a success test that lets redirects pass
is_success_or_redirect(st) == 400 > st /\ st >= 200

\* StatusCode::is_success: 300 > code && code >= 200
is_success(st) == 300 > st /\ st >= 200

\* StatusCode::canonical_reason, for the codes of Statuses
canonical_reason(st) ==
    CASE st = 100 -> "Continue"
      [] st = 101 -> "Switching Protocols"
      [] st = 200 -> "OK"
      [] st = 201 -> "Created"
      [] st = 202 -> "Accepted"
      [] st = 204 -> "No Content"
      [] st = 300 -> "Multiple Choices"
      [] st = 301 -> "Moved Permanently"
      [] st = 304 -> "Not Modified"
      [] st = 400 -> "Bad Request"
      [] st = 404 -> "Not Found"
      [] st = 500 -> "Internal Server Error"
      [] st = 503 -> "Service Unavailable"
      [] OTHER -> "<unknown status code>"

\* res.status().to_string(): "404 Not Found"
to_string(st) == ToString(st) \o " " \o canonical_reason(st)

\* BasicCheck::run (HealthcheckService::ping): one GET, no second attempt
BasicCheck_run(o) ==
    IF o.kind = "transport" THEN Err(o.text)
    ELSE IF ~is_success(o.status) THEN Err(to_string(o.status))
    ELSE Ok("")

\* impl FromLua for String: strings and numbers convert, anything else is a
\* FromLuaConversionError
from_lua(type, text) ==
    IF type \in {"string", "number"} THEN Ok(text)
    ELSE Err("error converting Lua " \o type \o " to String (expected string or number)")

\* LuxuryCheck::run: install photon.http, then ctx.load(&self.script).eval()
\* into a String; res.text().unwrap() in http_request panics on a body that
\* cannot be read
LuxuryCheck_run(o) ==
    CASE o.kind = "nobridge" -> Err(o.text)
      [] o.kind = "raised" -> Err(o.text)
      [] o.kind = "bodyerror" -> Panic
      [] OTHER -> from_lua(o.type, o.text)

\* a classification that keeps the status line of a passing GET as message
verdict_with_status_line(o) ==
    IF o.kind \in {"response", "transport"}
    THEN LET r == BasicCheck_run(o) IN
         [panic |-> FALSE, pass |-> r.ok,
          message |-> IF r.ok THEN to_string(o.status) ELSE r.value]
    ELSE LET r == LuxuryCheck_run(o) IN
         [panic |-> r.panic, pass |-> r.ok, message |-> r.value]

\* BasicCheck::spawn / LuxuryCheck::spawn:
\*   Ok(_) => (true, String::new()) resp. Ok(msg) => (true, msg); Err(err) => (false, err)
verdict(o) ==
    IF o.kind \in {"response", "transport"}
    THEN LET r == BasicCheck_run(o) IN
         [panic |-> FALSE, pass |-> r.ok, message |-> IF r.ok THEN "" ELSE r.value]
    ELSE LET r == LuxuryCheck_run(o) IN
         [panic |-> r.panic, pass |-> r.ok, message |-> r.value]

\* HealthcheckResult::new
\* ------------------------------------------------------- the interpreter
\* rlua::Lua::new(): a new Lua state with the standard library loaded, all of
\* it but `debug` (StdLib::ALL_NO_DEBUG)
Lua_new == {"base", "coroutine", "table", "io", "os", "string", "utf8", "math", "package"}

\* lua.load_from_std_lib(StdLib::X): adds X to what the state has
load_from_std_lib(libs, lib) == libs \cup {lib}

\* the libraries LuxuryCheck::run asks for, in its order
RunLibs == <<"base", "table", "string", "utf8", "math">>

\* the execution a state belongs to: one dispatch of one timer task
ExecutionOf(e) == <<e.tid, e.at>>

\* one interpreter kept per check and handed to each of its executions
instance_per_check(e) == <<e.tid, 0>>

\* `let lua = rlua::Lua::new();` is a local of run(): the state is this call's
instance(e) == ExecutionOf(e)

Global(name, e) == [name |-> name, by |-> ExecutionOf(e)]

\* the state run() of execution e works on, if it has made one
HasLua(l, e) == \E x \in l : x.key = instance(e)
LuaOf(l, e) == CHOOSE x \in l : x.key = instance(e)

\* run() returned: its local `lua` is dropped
drop(l, e) == {x \in l : x.key # instance(e)}

HealthcheckResult(id, start, pass, message) ==
    [id |-> id, start |-> start, pass |-> pass, message |-> message]

\* an insert that puts the new row ahead of the rows already there
insert_healthcheck_result_first(rs, s, r) == IF s[r.id].present THEN <<r>> \o rs ELSE rs

\* db::insert_healthcheck_result: INSERT INTO healthcheck_results; check_id
\* REFERENCES healthchecks(id), so a result of a check without a row is refused
insert_healthcheck_result(rs, s, r) == IF s[r.id].present THEN Append(rs, r) ELSE rs

\* an execution in flight: dispatched by timer task tid for check id at the
\* tick scheduled for time `at`; "probing" until run() returns, "recording"
\* until the insert returns
Execution(tid, id, at, start) ==
    [tid |-> tid, id |-> id, at |-> at, start |-> start, stage |-> "probing",
     outcome |-> NoOutcome, pass |-> FALSE, message |-> ""]

\* ------------------------------------------------------------------ Init
Init ==
    /\ store = [i \in Ids |-> NoRow]
    /\ nextId = 1
    /\ enabledDefault \in ColumnDefaults
    /\ handlers = [i \in Ids |-> 0]
    /\ tasks = {}
    /\ nextTask = 1
    /\ lock = 0
    /\ pc = [p \in Procs |-> "idle"]
    /\ op = [p \in Procs |-> "None"]
    /\ arg = [p \in Procs |-> 0]
    /\ check = [p \in Procs |-> NoCheck]
    /\ result = [p \in Procs |-> NoResult]
    /\ started = [p \in Procs |-> 0]
    /\ reqs = 0
    /\ now = 0
    /\ timers = [t \in TaskIds |-> NoTimer]
    /\ execs = {}
    /\ dispatched = 0
    /\ results = <<>>
    /\ query = [p \in Procs |-> NoQuery]
    /\ lua = {}
    /\ main = NoMain
    /\ codec = NoCodec
    /\ agent = NoAgent

\* ------------------------------------------------------- request arrival
Free(p) == pc[p] \in {"idle", "done"}

Accept(p, o, id, c, first) ==
    /\ Free(p)
    /\ reqs < MaxRequests
    /\ reqs' = reqs + 1
    /\ op' = [op EXCEPT ![p] = o]
    /\ arg' = [arg EXCEPT ![p] = id]
    /\ check' = [check EXCEPT ![p] = c]
    /\ result' = [result EXCEPT ![p] = NoResult]
    /\ started' = [started EXCEPT ![p] = 0]
    /\ pc' = [pc EXCEPT ![p] = first]
    /\ UNCHANGED <<store, nextId, enabledDefault, handlers, tasks, nextTask, lock>>
    /\ UNCHANGED sched
    /\ UNCHANGED <<query, lua>>
    /\ UNCHANGED host

\* the handler returns r; its local `check` goes out of scope
Return(p, r) ==
    /\ pc' = [pc EXCEPT ![p] = "done"]
    /\ result' = [result EXCEPT ![p] = r]
    /\ check' = [check EXCEPT ![p] = NoCheck]

\* Inserts still to come from requests already accepted
PendingInserts == Cardinality({q \in Procs : pc[q] = "c_insert"})

\* --------------------------------------------------------------- Create
\* the insert error is swallowed and the handler goes on to start the task
on_insert_error_ignored == "c_registry"

\* Err(err) => return Err(Status::new(Code::Internal, err.to_string()))
\* (grpc/mod.rs:99): the handler ends there
on_insert_error == "done"

\* let mut check = check.into_inner();
CreateRequest(p) ==
    \E iv \in Intervals, en \in BOOLEAN :
        /\ nextId + PendingInserts <= MaxId
        /\ Accept(p, "Create", 0, Healthcheck(0, iv, en), "c_insert")

\* db::insert_healthcheck(&self.db_client, &check).await, and on Ok
\* check.id = id; check.enabled = true
CreateInsert(p) ==
    /\ pc[p] = "c_insert"
    /\ \E fault \in BOOLEAN :
        IF fault \/ ~insert_accepted(enabledDefault)
        THEN /\ result' = [result EXCEPT ![p] = Status("Internal", "StoreError")]
             /\ pc' = [pc EXCEPT ![p] = on_insert_error]
             /\ check' = [check EXCEPT ![p] = NoCheck]
             /\ UNCHANGED <<store, nextId, arg>>
        ELSE /\ store' = [store EXCEPT ![nextId] = insert_row(check[p], enabledDefault)]
             /\ nextId' = nextId + 1
             /\ arg' = [arg EXCEPT ![p] = nextId]
             /\ check' = [check EXCEPT ![p] = Healthcheck(nextId, check[p].interval, TRUE)]
             /\ pc' = [pc EXCEPT ![p] = "c_registry"]
             /\ UNCHANGED result
    /\ UNCHANGED <<enabledDefault, handlers, tasks, nextTask, lock, op, started, reqs>>
    /\ UNCHANGED sched
    /\ UNCHANGED <<query, lua>>
    /\ UNCHANGED host

\* { let mut guard = self.handlers.lock().await;
\*   let handle = service.spawn().await; guard.insert(id, handle); }
CreateRegistry(p) ==
    /\ pc[p] = "c_registry"
    /\ lock = 0
    /\ IF as_u64(check[p].interval) = 0
       THEN \* tokio::time::interval panics on a zero period: spawn() unwinds
            \* through the handler, the guard is dropped, no task was made
            /\ Return(p, Status("Panicked", "ZeroPeriod"))
            /\ UNCHANGED <<tasks, handlers, started, nextTask, timers>>
       ELSE /\ tasks' = spawn(tasks, nextTask, arg[p])
            /\ handlers' = guard_insert(handlers, arg[p], nextTask)
            /\ started' = [started EXCEPT ![p] = nextTask]
            /\ nextTask' = nextTask + 1
            /\ timers' = [timers EXCEPT ![nextTask] = interval(check[p].interval, now)]
            /\ Return(p, OkResponse(check[p]))
    /\ UNCHANGED <<store, nextId, enabledDefault, lock, op, arg, reqs>>
    /\ UNCHANGED <<now, execs, dispatched, results>>
    /\ UNCHANGED <<query, lua>>
    /\ UNCHANGED host

\* --------------------------------------------------------------- Delete
\* let id = util::id_from_query_filter(query.into_inner())?;
DeleteRequest(p) ==
    \E id \in Ids : Accept(p, "Delete", id, NoCheck, "x_registry")

\* { let mut guard = self.handlers.lock().await;
\*   match guard.remove(&id) { Some(handle) => handle.abort(), None => .. } }
DeleteRegistry(p) ==
    /\ pc[p] = "x_registry"
    /\ lock = 0
    /\ handlers' = guard_remove(handlers, arg[p])
    /\ tasks' = IF contains_key(handlers, arg[p]) THEN abort(tasks, handlers[arg[p]]) ELSE tasks
    /\ execs' = IF contains_key(handlers, arg[p]) THEN detached(execs, handlers[arg[p]]) ELSE execs
    /\ pc' = [pc EXCEPT ![p] = "x_delete"]
    /\ UNCHANGED <<store, nextId, enabledDefault, nextTask, lock, op, arg, check,
                   result, started, reqs>>
    /\ UNCHANGED <<now, timers, dispatched, results>>
    /\ UNCHANGED <<query, lua>>
    /\ UNCHANGED host

\* db::delete_healthcheck(&self.db_client, id).await, after the guard was dropped
DeleteStore(p) ==
    /\ pc[p] = "x_delete"
    /\ \E fault \in BOOLEAN :
        LET got == get_healthcheck(store, arg[p]) IN
        IF fault
        THEN /\ Return(p, Status("Internal", "StoreError"))
             /\ UNCHANGED <<store, results>>
        ELSE IF ~got.ok
        THEN /\ Return(p, Status("Internal", "RowNotFound"))
             /\ UNCHANGED <<store, results>>
        ELSE /\ store' = delete_healthcheck(store, arg[p])
             /\ results' = on_delete_cascade(results, arg[p])
             /\ Return(p, OkResponse(got.check))
    /\ UNCHANGED <<nextId, enabledDefault, handlers, tasks, nextTask, lock, op, arg,
                   started, reqs>>
    /\ UNCHANGED <<now, timers, execs, dispatched>>
    /\ UNCHANGED <<query, lua>>
    /\ UNCHANGED host

\* ------------------------------------------------------ the registry guard
\* a guard that outlives the handler that returned early
return_under_guard_leaked(l) == l

\* `return Err(..)` inside the block that holds `guard`: the MutexGuard goes
\* out of scope and the lock is free
return_under_guard(l) == 0

\* --------------------------------------------------------------- Enable
EnableRequest(p) ==
    \E id \in Ids : Accept(p, "Enable", id, NoCheck, "e_get")

\* let check = match db::get_healthcheck(&self.db_client, id).await { .. }
EnableGet(p) ==
    /\ pc[p] = "e_get"
    /\ \E fault \in BOOLEAN :
        LET got == get_healthcheck(store, arg[p]) IN
        IF fault
        THEN Return(p, Status("Internal", "StoreError"))
        ELSE IF ~got.ok
        THEN Return(p, Status("Internal", "RowNotFound"))
        ELSE /\ check' = [check EXCEPT ![p] = got.check]
             /\ pc' = [pc EXCEPT ![p] = "e_lock"]
             /\ UNCHANGED result
    /\ UNCHANGED <<store, nextId, enabledDefault, handlers, tasks, nextTask, lock, op,
                   arg, started, reqs>>
    /\ UNCHANGED sched
    /\ UNCHANGED <<query, lua>>
    /\ UNCHANGED host

\* let mut guard = self.handlers.lock().await;
EnableLock(p) ==
    /\ pc[p] = "e_lock"
    /\ lock = 0
    /\ lock' = p
    /\ pc' = [pc EXCEPT ![p] = "e_update"]
    /\ UNCHANGED <<store, nextId, enabledDefault, handlers, tasks, nextTask, op, arg,
                   check, result, started, reqs>>
    /\ UNCHANGED sched
    /\ UNCHANGED <<query, lua>>
    /\ UNCHANGED host

\* if let Err(err) = db::enable_healthcheck(&self.db_client, id).await { return Err(..) }
EnableUpdate(p) ==
    /\ pc[p] = "e_update"
    /\ \E fault \in BOOLEAN :
        IF fault
        THEN /\ Return(p, Status("Internal", "StoreError"))
             /\ lock' = return_under_guard(lock)
             /\ UNCHANGED store
        ELSE /\ store' = enable_healthcheck(store, arg[p])
             /\ pc' = [pc EXCEPT ![p] = "e_registry"]
             /\ UNCHANGED <<result, lock, check>>
    /\ UNCHANGED <<nextId, enabledDefault, handlers, tasks, nextTask, op, arg, started, reqs>>
    /\ UNCHANGED sched
    /\ UNCHANGED <<query, lua>>
    /\ UNCHANGED host

\* an Enable that starts the task and stores its handle before it looks for an
\* entry, and so replaces the entry of a running check when it fails
EnableRegistry_spawn_first(p) ==
    /\ pc[p] = "e_registry"
    /\ lock' = 0
    /\ tasks' = spawn(tasks, nextTask, arg[p])
    /\ handlers' = guard_insert(handlers, arg[p], nextTask)
    /\ started' = [started EXCEPT ![p] = nextTask]
    /\ nextTask' = nextTask + 1
    /\ timers' = [timers EXCEPT ![nextTask] = interval(check[p].interval, now)]
    /\ IF contains_key(handlers, arg[p])
       THEN Return(p, Status("InvalidArgument", "AlreadyRunning"))
       ELSE Return(p, OkResponse(check[p]))
    /\ UNCHANGED <<store, nextId, enabledDefault, op, arg, reqs>>
    /\ UNCHANGED <<now, execs, dispatched, results>>
    /\ UNCHANGED <<query, lua>>
    /\ UNCHANGED host

\* if guard.contains_key(&id) { return Err(InvalidArgument) }
\* let handle = service.spawn().await; guard.insert(id, handle);  (guard dropped)
EnableRegistry(p) ==
    /\ pc[p] = "e_registry"
    /\ lock' = IF contains_key(handlers, arg[p]) THEN return_under_guard(lock) ELSE 0
    /\ IF contains_key(handlers, arg[p])
       THEN /\ Return(p, Status("InvalidArgument", "AlreadyRunning"))
            /\ UNCHANGED <<handlers, tasks, nextTask, started, timers>>
       ELSE /\ tasks' = spawn(tasks, nextTask, arg[p])
            /\ handlers' = guard_insert(handlers, arg[p], nextTask)
            /\ started' = [started EXCEPT ![p] = nextTask]
            /\ nextTask' = nextTask + 1
            /\ timers' = [timers EXCEPT ![nextTask] = interval(check[p].interval, now)]
            /\ Return(p, OkResponse(check[p]))
    /\ UNCHANGED <<store, nextId, enabledDefault, op, arg, reqs>>
    /\ UNCHANGED <<now, execs, dispatched, results>>
    /\ UNCHANGED <<query, lua>>
    /\ UNCHANGED host

\* -------------------------------------------------------------- Disable
DisableRequest(p) ==
    \E id \in Ids : Accept(p, "Disable", id, NoCheck, "d_lock")

\* let mut guard = self.handlers.lock().await;
DisableLock(p) ==
    /\ pc[p] = "d_lock"
    /\ lock = 0
    /\ lock' = p
    /\ pc' = [pc EXCEPT ![p] = "d_update"]
    /\ UNCHANGED <<store, nextId, enabledDefault, handlers, tasks, nextTask, op, arg,
                   check, result, started, reqs>>
    /\ UNCHANGED sched
    /\ UNCHANGED <<query, lua>>
    /\ UNCHANGED host

\* if let Err(err) = db::disable_healthcheck(&self.db_client, id).await { return Err(..) }
DisableUpdate(p) ==
    /\ pc[p] = "d_update"
    /\ \E fault \in BOOLEAN :
        IF fault
        THEN /\ Return(p, Status("Internal", "StoreError"))
             /\ lock' = return_under_guard(lock)
             /\ UNCHANGED store
        ELSE /\ store' = disable_healthcheck(store, arg[p])
             /\ pc' = [pc EXCEPT ![p] = "d_registry"]
             /\ UNCHANGED <<result, lock, check>>
    /\ UNCHANGED <<nextId, enabledDefault, handlers, tasks, nextTask, op, arg, started, reqs>>
    /\ UNCHANGED sched
    /\ UNCHANGED <<query, lua>>
    /\ UNCHANGED host

\* let handle = match guard.remove(&id) { Some(val) => val, None => return Err(..) };
\* handle.abort();  (guard dropped)
DisableRegistry(p) ==
    /\ pc[p] = "d_registry"
    /\ lock' = IF contains_key(handlers, arg[p]) THEN 0 ELSE return_under_guard(lock)
    /\ IF contains_key(handlers, arg[p])
       THEN /\ handlers' = guard_remove(handlers, arg[p])
            /\ tasks' = abort(tasks, handlers[arg[p]])
            /\ execs' = detached(execs, handlers[arg[p]])
            /\ Return(p, OkResponse(NoCheck))
       ELSE /\ Return(p, Status("InvalidArgument", "NotRunning"))
            /\ UNCHANGED <<handlers, tasks, execs>>
    /\ UNCHANGED <<store, nextId, enabledDefault, nextTask, op, arg, started, reqs>>
    /\ UNCHANGED <<now, timers, dispatched, results>>
    /\ UNCHANGED <<query, lua>>
    /\ UNCHANGED host

\* ------------------------------------------------------------------ Next
Next ==
    \E p \in Procs :
        \/ CreateRequest(p)
        \/ CreateInsert(p)
        \/ CreateRegistry(p)
        \/ DeleteRequest(p)
        \/ DeleteRegistry(p)
        \/ DeleteStore(p)
        \/ EnableRequest(p)
        \/ EnableGet(p)
        \/ EnableLock(p)
        \/ EnableUpdate(p)
        \/ EnableRegistry(p)
        \/ DisableRequest(p)
        \/ DisableLock(p)
        \/ DisableUpdate(p)
        \/ DisableRegistry(p)

Spec == Init /\ [][Next]_vars

\* ------------------------------------------- control requests, scheduled
\* self.handlers.lock().await: tokio's Mutex hands the lock out in the order
\* of the requests for it, so a handler that keeps asking gets it
Acquire(p) ==
    \/ CreateRegistry(p)
    \/ DeleteRegistry(p)
    \/ EnableLock(p)
    \/ DisableLock(p)

\* the awaits of a handler on the store, which return, and the code after them
Work(p) ==
    \/ CreateInsert(p)
    \/ DeleteStore(p)
    \/ EnableGet(p)
    \/ EnableUpdate(p)
    \/ EnableRegistry(p)
    \/ DisableUpdate(p)
    \/ DisableRegistry(p)

TypeOK ==
    /\ store \in [Ids -> {NoRow} \cup {Row(iv, en) : iv \in Intervals, en \in BOOLEAN}]
    /\ nextId \in 1..(MaxId + 1)
    /\ enabledDefault \in ColumnDefaults
    /\ handlers \in [Ids -> Nat]
    /\ lock \in {0} \cup Procs
    /\ reqs \in 0..MaxRequests
    /\ now \in Times
    /\ dispatched \in 0..MaxExecs
    /\ \A e \in execs : e.tid \in TaskIds /\ e.id \in Ids
    /\ \A i \in 1..Len(results) : results[i].id \in Ids

\* ------------------------------------------ concurrent Enable of one check
\* One check exists and is not running (it was created and then disabled, or
\* found disabled or never started at startup); N handlers enable it at once.
InitEnable ==
    /\ \E id \in Ids, iv \in Intervals, en \in BOOLEAN :
          /\ store = [i \in Ids |-> IF i = id THEN Row(iv, en) ELSE NoRow]
          /\ nextId = id + 1
    /\ enabledDefault \in ColumnDefaults
    /\ handlers = [i \in Ids |-> 0]
    /\ tasks = {}
    /\ nextTask = 1
    /\ lock = 0
    /\ pc = [p \in Procs |-> "idle"]
    /\ op = [p \in Procs |-> "None"]
    /\ arg = [p \in Procs |-> 0]
    /\ check = [p \in Procs |-> NoCheck]
    /\ result = [p \in Procs |-> NoResult]
    /\ started = [p \in Procs |-> 0]
    /\ reqs = 0
    /\ now = 0
    /\ timers = [t \in TaskIds |-> NoTimer]
    /\ execs = {}
    /\ dispatched = 0
    /\ results = <<>>
    /\ query = [p \in Procs |-> NoQuery]
    /\ lua = {}
    /\ main = NoMain
    /\ codec = NoCodec
    /\ agent = NoAgent

\* every handler serves one Enable request
NextEnable ==
    \E p \in Procs :
        \/ (pc[p] = "idle" /\ EnableRequest(p))
        \/ EnableGet(p)
        \/ EnableLock(p)
        \/ EnableUpdate(p)
        \/ EnableRegistry(p)

SpecEnable == InitEnable /\ [][NextEnable]_vars

\* ------------------------------------------------------- timers at work
Alive(t) == \E x \in tasks : x.tid = t
IdOf(t) == (CHOOSE x \in tasks : x.tid = t).id

\* interval.tick().await of task t can return
TickReady(t) ==
    /\ timers[t].deadline <= now
    /\ ~loop_awaits(execs, t)
    /\ ~worker_occupied(execs, t)

\* loop { interval.tick().await; tokio::task::spawn(async move { check.run().await }); }
Tick(t) ==
    /\ Alive(t)
    /\ TickReady(t)
    /\ dispatched < MaxExecs
    /\ execs' = execs \cup {Execution(t, IdOf(t), timers[t].deadline, now)}
    /\ timers' = [timers EXCEPT ![t] = tick(timers[t])]
    /\ dispatched' = dispatched + 1
    /\ UNCHANGED <<store, nextId, enabledDefault, handlers, tasks, nextTask, lock,
                   pc, op, arg, check, result, started, reqs, now, results>>
    /\ UNCHANGED <<query, lua>>
    /\ UNCHANGED host

\* let res = match self.run().await { Ok(_) => (true, ..), Err(err) => (false, err) };
\* let result = HealthcheckResult::new(.., res.0, res.1, start_time);
Probe(e, o) ==
    /\ e \in execs
    /\ e.stage = "probing"
    /\ LET v == verdict(o) IN
       execs' = IF v.panic
                THEN execs \ {e}
                ELSE (execs \ {e}) \cup
                     {[e EXCEPT !.stage = "recording", !.outcome = o,
                                !.pass = v.pass, !.message = v.message]}
    /\ lua' = drop(lua, e)
    /\ UNCHANGED host
    /\ UNCHANGED <<store, nextId, enabledDefault, handlers, tasks, nextTask, lock,
                   pc, op, arg, check, result, started, reqs, now, timers,
                   dispatched, results>>
    /\ UNCHANGED query

\* an insert whose error is passed on with `?` and ends the timer loop
Record_propagating(e, fault) ==
    /\ e \in execs
    /\ e.stage = "recording"
    /\ results' = IF fault
                  THEN results
                  ELSE insert_healthcheck_result(results, store,
                           HealthcheckResult(e.id, e.start, e.pass, e.message))
    /\ execs' = execs \ {e}
    /\ tasks' = IF fault THEN abort(tasks, e.tid) ELSE tasks
    /\ UNCHANGED <<store, nextId, enabledDefault, handlers, nextTask, lock,
                   pc, op, arg, check, result, started, reqs, now, timers, dispatched>>
    /\ UNCHANGED <<query, lua>>
    /\ UNCHANGED host

\* if let Err(err) = db::record_healthcheck(&self.db_client, result).await { error!(..) }
Record(e, fault) ==
    /\ e \in execs
    /\ e.stage = "recording"
    /\ results' = IF fault
                  THEN results
                  ELSE insert_healthcheck_result(results, store,
                           HealthcheckResult(e.id, e.start, e.pass, e.message))
    /\ execs' = execs \ {e}
    /\ UNCHANGED <<store, nextId, enabledDefault, handlers, tasks, nextTask, lock,
                   pc, op, arg, check, result, started, reqs, now, timers, dispatched>>
    /\ UNCHANGED <<query, lua>>
    /\ UNCHANGED host

\* a second passes once no timer loop is ready to take its tick
Advance ==
    /\ now < MaxTime
    /\ \A t \in TaskIds : Alive(t) => ~TickReady(t)
    /\ now' = now + 1
    /\ UNCHANGED <<store, nextId, enabledDefault, handlers, tasks, nextTask, lock,
                   pc, op, arg, check, result, started, reqs, timers, execs,
                   dispatched, results>>
    /\ UNCHANGED <<query, lua>>
    /\ UNCHANGED host

\* The checks of S were created and are running, their timers just made.
InitRunning(S, ivs) ==
    /\ enabledDefault \in ColumnDefaults \ {"none"}
    /\ store = [i \in Ids |-> IF i \in S
                                THEN insert_row(Healthcheck(0, ivs[i], TRUE), enabledDefault)
                                ELSE NoRow]
    /\ nextId = Cardinality(S) + 1
    /\ handlers = [i \in Ids |-> IF i \in S THEN i ELSE 0]
    /\ tasks = {[tid |-> i, id |-> i] : i \in S}
    /\ nextTask = Cardinality(S) + 1
    /\ lock = 0
    /\ pc = [p \in Procs |-> "idle"]
    /\ op = [p \in Procs |-> "None"]
    /\ arg = [p \in Procs |-> 0]
    /\ check = [p \in Procs |-> NoCheck]
    /\ result = [p \in Procs |-> NoResult]
    /\ started = [p \in Procs |-> 0]
    /\ reqs = 0
    /\ now = 0
    /\ timers = [t \in TaskIds |-> IF t \in S THEN interval(ivs[t], 0) ELSE NoTimer]
    /\ execs = {}
    /\ dispatched = 0
    /\ results = <<>>
    /\ query = [p \in Procs |-> NoQuery]
    /\ lua = {}
    /\ main = NoMain
    /\ codec = NoCodec
    /\ agent = NoAgent

\* ------------------------------------------ every check running, no requests
InitTimer == \E ivs \in [Ids -> Intervals] : InitRunning(Ids, ivs)

NextTimer ==
    \/ \E t \in TaskIds : Tick(t)
    \/ \E e \in execs, o \in SampleOutcomes : Probe(e, o)
    \/ \E e \in execs, fault \in BOOLEAN : Record(e, fault)
    \/ Advance

SpecTimer == InitTimer /\ [][NextTimer]_vars

\* ------------------------------- one running check that is stopped meanwhile
InitStop == \E ivs \in [Ids -> Intervals] : InitRunning({1}, ivs)

\* every handler serves one Disable or Delete request
NextStop ==
    \/ \E p \in Procs :
          \/ (pc[p] = "idle" /\ DisableRequest(p))
          \/ DisableLock(p)
          \/ DisableUpdate(p)
          \/ DisableRegistry(p)
          \/ (pc[p] = "idle" /\ DeleteRequest(p))
          \/ DeleteRegistry(p)
          \/ DeleteStore(p)
    \/ \E t \in TaskIds : Tick(t)
    \/ \E e \in execs, o \in SampleOutcomes : Probe(e, o)
    \/ \E e \in execs, fault \in BOOLEAN : Record(e, fault)

SpecStop == InitStop /\ [][NextStop]_vars

\* --------------------------- handlers contending for the registry lock
\* one check is running; every handler serves one control request, for an
\* id the store has handed out
NextContend ==
    \E p \in Procs :
        \/ (pc[p] = "idle" /\ CreateRequest(p))
        \/ (pc[p] = "idle" /\ DeleteRequest(p) /\ arg'[p] < nextId)
        \/ (pc[p] = "idle" /\ EnableRequest(p) /\ arg'[p] < nextId)
        \/ (pc[p] = "idle" /\ DisableRequest(p) /\ arg'[p] < nextId)
        \/ Acquire(p)
        \/ Work(p)

SpecContend ==
    /\ InitRunning({1}, [i \in Ids |-> 1])
    /\ [][NextContend]_vars
    /\ \A p \in Procs : WF_vars(Work(p)) /\ SF_vars(Acquire(p))

\* ------------------------------------ one execution meeting every outcome
NextProbe ==
    \/ \E t \in TaskIds : dispatched = 0 /\ Tick(t)
    \/ \E e \in execs, o \in Outcomes : Probe(e, o)
    \/ \E e \in execs, fault \in BOOLEAN : Record(e, fault)

SpecProbe == InitStop /\ [][NextProbe]_vars

\* ------------------------------------- requests and timers side by side
NextRun ==
    \/ Next
    \/ \E t \in TaskIds : Tick(t)
    \/ \E e \in execs, o \in SampleOutcomes : Probe(e, o)
    \/ \E e \in execs, fault \in BOOLEAN : Record(e, fault)

SpecRun == Init /\ [][NextRun]_vars

\* --------------------------------------------------------------- startup
\* the store a starting process finds: any rows left by earlier runs
InitBoot ==
    /\ store \in [Ids -> {NoRow} \cup {Row(iv, en) : iv \in Intervals, en \in BOOLEAN}]
    /\ nextId = MaxId + 1
    /\ enabledDefault \in ColumnDefaults \ {"none"}
    /\ handlers = [i \in Ids |-> 0]
    /\ tasks = {}
    /\ nextTask = 1
    /\ lock = 0
    /\ pc = [p \in Procs |-> "boot"]
    /\ op = [p \in Procs |-> "None"]
    /\ arg = [p \in Procs |-> 0]
    /\ check = [p \in Procs |-> NoCheck]
    /\ result = [p \in Procs |-> NoResult]
    /\ started = [p \in Procs |-> 0]
    /\ reqs = 0
    /\ now = 0
    /\ timers = [t \in TaskIds |-> NoTimer]
    /\ execs = {}
    /\ dispatched = 0
    /\ results = <<>>
    /\ query = [p \in Procs |-> NoQuery]
    /\ lua = {}
    /\ main = NoMain
    /\ codec = NoCodec
    /\ agent = NoAgent

\* the gRPC service is not bound yet
Booting == \A p \in Procs : pc[p] = "boot"

\* a reconciliation that starts every definition, enabled or not
enabled_definitions_all(s) == {i \in Ids : s[i].present}

\* load_from_database: the definitions with enabled = true
enabled_definitions(s) == {i \in Ids : s[i].present /\ s[i].enabled}

\* load_from_database: start() for one fetched definition and keep its handle
Load(id) ==
    /\ Booting
    /\ id \in enabled_definitions(store)
    /\ ~contains_key(handlers, id)
    /\ tasks' = spawn(tasks, nextTask, id)
    /\ handlers' = guard_insert(handlers, id, nextTask)
    /\ timers' = [timers EXCEPT ![nextTask] = interval(store[id].interval, now)]
    /\ nextTask' = nextTask + 1
    /\ UNCHANGED <<store, nextId, enabledDefault, lock, pc, op, arg, check, result,
                   started, reqs, now, execs, dispatched, results>>
    /\ UNCHANGED <<query, lua>>
    /\ UNCHANGED host

\* every fetched definition is started: Server::new(db_client, handlers) and
\* the service begins to accept requests
Serve ==
    /\ Booting
    /\ \A id \in enabled_definitions(store) : contains_key(handlers, id)
    /\ pc' = [p \in Procs |-> "idle"]
    /\ UNCHANGED <<store, nextId, enabledDefault, handlers, tasks, nextTask, lock,
                   op, arg, check, result, started, reqs>>
    /\ UNCHANGED sched
    /\ UNCHANGED <<query, lua>>
    /\ UNCHANGED host

\* one client whose requests are served one after the other: the handler that
\* took the first request takes them all
OnlyClient(p) == \A q \in Procs \ {p} : op[q] = "None"

\* startup, then one handler serves one Enable or Disable request
NextBoot ==
    \/ \E id \in Ids : Load(id)
    \/ Serve
    \/ \E p \in Procs :
          /\ OnlyClient(p)
          /\ \/ (pc[p] = "idle" /\ EnableRequest(p))
             \/ EnableGet(p)
             \/ EnableLock(p)
             \/ EnableUpdate(p)
             \/ EnableRegistry(p)
             \/ (pc[p] = "idle" /\ DisableRequest(p))
             \/ DisableLock(p)
             \/ DisableUpdate(p)
             \/ DisableRegistry(p)

SpecBoot == InitBoot /\ [][NextBoot]_vars

\* ------------------------------------------ Create with any i32 interval
\* Healthcheck.interval is an int32 of the request message and reaches
\* db::insert_healthcheck as it came
RequestIntervals == {0 - 1, 0} \cup Intervals

CreateRequestAnyInterval(p) ==
    \E iv \in RequestIntervals, en \in BOOLEAN :
        /\ nextId + PendingInserts <= MaxId
        /\ Accept(p, "Create", 0, Healthcheck(0, iv, en), "c_insert")

NextInterval ==
    \/ \E p \in Procs :
          \/ (OnlyClient(p) /\ CreateRequestAnyInterval(p))
          \/ CreateInsert(p)
          \/ CreateRegistry(p)
    \/ \E t \in TaskIds : Tick(t)
    \/ Advance

SpecInterval == Init /\ [][NextInterval]_vars

\* ---------------------------------------------------------------- queries
\* a filter whose missing id is read as the protobuf default
id_from_query_filter_or_default(filter) ==
    [ok |-> TRUE, id |-> unwrap_or(filter, 0), status |-> NoResult]

\* util::id_from_query_filter: Some(Binds::Id(val)) => val,
\* None => Err(Status::new(Code::InvalidArgument, "id is a required argument"))
id_from_query_filter(filter) ==
    IF filter.some
    THEN [ok |-> TRUE, id |-> filter.val, status |-> NoResult]
    ELSE [ok |-> FALSE, id |-> 0, status |-> Status("InvalidArgument", "IdRequired")]

\* the RPCs that take a QueryFilter, and the first step of each after
\* `let id = util::id_from_query_filter(query.into_inner())?;`
IdOps == {"Get", "Delete", "Enable", "Disable"}
FirstStep(o) ==
    CASE o = "Get" -> "g_get"
      [] o = "Delete" -> "x_registry"
      [] o = "Enable" -> "e_get"
      [] o = "Disable" -> "d_lock"

\* the `?` on an Err: the handler returns the status at once
Reject(p, o, status) ==
    /\ Free(p)
    /\ reqs < MaxRequests
    /\ reqs' = reqs + 1
    /\ op' = [op EXCEPT ![p] = o]
    /\ arg' = [arg EXCEPT ![p] = 0]
    /\ started' = [started EXCEPT ![p] = 0]
    /\ Return(p, status)
    /\ UNCHANGED <<store, nextId, enabledDefault, handlers, tasks, nextTask, lock>>
    /\ UNCHANGED sched
    /\ UNCHANGED <<query, lua>>
    /\ UNCHANGED host

\* a request of one of the four RPCs whose QueryFilter has no binds
NoIdRequest(p) ==
    \E o \in IdOps :
        LET r == id_from_query_filter(None) IN
        IF r.ok
        THEN Accept(p, o, r.id, NoCheck, FirstStep(o))
        ELSE Reject(p, o, r.status)

\* Server::get_healthcheck
GetRequest(p) ==
    \E id \in Ids : Accept(p, "Get", id, NoCheck, "g_get")

\* match db::get_healthcheck(&self.db_client, id).await {
\*     Ok(val) => val, Err(err) => return Err(Status::new(Code::Internal, ..)) }
GetStore(p) ==
    /\ pc[p] = "g_get"
    /\ \E fault \in BOOLEAN :
        LET got == get_healthcheck(store, arg[p]) IN
        IF fault
        THEN Return(p, Status("Internal", "StoreError"))
        ELSE IF ~got.ok
        THEN Return(p, Status("Internal", "RowNotFound"))
        ELSE Return(p, OkResponse(got.check))
    /\ UNCHANGED <<store, nextId, enabledDefault, handlers, tasks, nextTask, lock, op,
                   arg, started, reqs>>
    /\ UNCHANGED sched
    /\ UNCHANGED <<query, lua>>
    /\ UNCHANGED host

\* query.limit.unwrap_or(10)
DefaultLimit == 10
\* query.enabled.unwrap_or(true)
DefaultEnabled == TRUE

\* the limits and filters a request can carry
Limits == {None, Some(0 - 1), Some(0), Some(1), Some(2)}
Filters == {NoneBool, Some(TRUE), Some(FALSE)}
Min(a, b) == IF a < b THEN a ELSE b

\* a listing that forgets its WHERE clause
list_healthchecks_unfiltered(s, enabled, limit) ==
    LET m == {FromSchema(i, s[i]) : i \in {j \in Ids : s[j].present}} IN
    {S \in SUBSET m : Cardinality(S) = Min(limit, Cardinality(m))}

\* db::list_healthchecks: SELECT * FROM healthchecks WHERE enabled=$1 LIMIT $2.
\* Without ORDER BY any `limit` of the matching rows can come back: the set of
\* the possible answers
list_healthchecks(s, enabled, limit) ==
    LET m == {FromSchema(i, s[i]) :
                 i \in {j \in Ids : s[j].present /\ s[j].enabled = enabled}} IN
    {S \in SUBSET m : Cardinality(S) = Min(limit, Cardinality(m))}

Reverse(sq) == [i \in 1..Len(sq) |-> sq[Len(sq) + 1 - i]]

\* a listing in insertion order
list_healthcheck_results_oldest_first(rs, s, id, limit) ==
    LET mine == SelectSeq(rs, LAMBDA r : r.id = id /\ s[r.id].present) IN
    SubSeq(mine, 1, Min(limit, Len(mine)))

\* db::list_healthcheck_results: SELECT healthcheck_results.* .. INNER JOIN
\* healthchecks .. WHERE check_id=$1 ORDER BY healthcheck_results.id DESC LIMIT $2
list_healthcheck_results(rs, s, id, limit) ==
    LET mine == SelectSeq(rs, LAMBDA r : r.id = id /\ s[r.id].present) IN
    SubSeq(Reverse(mine), 1, Min(limit, Len(mine)))

\* Server::list_healthchecks / Server::list_healthcheck_results: the request
AcceptQuery(p, o, id, q, first) ==
    /\ Free(p)
    /\ reqs < MaxRequests
    /\ reqs' = reqs + 1
    /\ op' = [op EXCEPT ![p] = o]
    /\ arg' = [arg EXCEPT ![p] = id]
    /\ query' = [query EXCEPT ![p] = q]
    /\ UNCHANGED lua
    /\ UNCHANGED host
    /\ check' = [check EXCEPT ![p] = NoCheck]
    /\ result' = [result EXCEPT ![p] = NoResult]
    /\ started' = [started EXCEPT ![p] = 0]
    /\ pc' = [pc EXCEPT ![p] = first]
    /\ UNCHANGED <<store, nextId, enabledDefault, handlers, tasks, nextTask, lock>>
    /\ UNCHANGED sched

ListRequest(p) ==
    \E en \in Filters, lim \in Limits :
        AcceptQuery(p, "List", 0, ListQuery(en, lim), "l_list")

\* let enabled = query.enabled.unwrap_or(true); let limit = query.limit.unwrap_or(10);
\* match db::list_healthchecks(&self.db_client, enabled, limit).await { .. }
\* (Postgres refuses a negative LIMIT)
ListStore(p) ==
    /\ pc[p] = "l_list"
    /\ LET enabled == unwrap_or(query[p].enabled, DefaultEnabled)
           limit == unwrap_or(query[p].limit, DefaultLimit) IN
       \E fault \in BOOLEAN :
          IF fault \/ limit < 0
          THEN Return(p, Status("Internal", "StoreError"))
          ELSE \E S \in list_healthchecks(store, enabled, limit) :
                  Return(p, [OkResponse(NoCheck) EXCEPT !.list = S])
    /\ query' = [query EXCEPT ![p] = NoQuery]
    /\ UNCHANGED lua
    /\ UNCHANGED host
    /\ UNCHANGED <<store, nextId, enabledDefault, handlers, tasks, nextTask, lock, op,
                   arg, started, reqs>>
    /\ UNCHANGED sched

ResultsRequest(p) ==
    \E id \in Ids, lim \in Limits :
        AcceptQuery(p, "ListResults", id, ListQuery(NoneBool, lim), "r_list")

\* let limit = query.limit.unwrap_or(10);
\* match db::list_healthcheck_results(&self.db_client, query.id, limit).await { .. }
ResultsStore(p) ==
    /\ pc[p] = "r_list"
    /\ LET limit == unwrap_or(query[p].limit, DefaultLimit) IN
       \E fault \in BOOLEAN :
          IF fault \/ limit < 0
          THEN Return(p, Status("Internal", "StoreError"))
          ELSE Return(p, [OkResponse(NoCheck) EXCEPT
                             !.rows = list_healthcheck_results(results, store, arg[p], limit)])
    /\ query' = [query EXCEPT ![p] = NoQuery]
    /\ UNCHANGED lua
    /\ UNCHANGED host
    /\ UNCHANGED <<store, nextId, enabledDefault, handlers, tasks, nextTask, lock, op,
                   arg, started, reqs>>
    /\ UNCHANGED sched

\* ---------------------------------- startup, then Get, List and no-id requests
NextQuery ==
    \/ \E id \in Ids : Load(id)
    \/ Serve
    \/ \E p \in Procs :
          /\ OnlyClient(p)
          /\ \/ GetRequest(p)
             \/ GetStore(p)
             \/ NoIdRequest(p)
             \/ ListRequest(p)
             \/ ListStore(p)

SpecQuery == InitBoot /\ [][NextQuery]_vars

\* ------------------------------ every check running, results being listed
\* the client asks once the executions have finished
InitResults == InitRunning(Ids, [i \in Ids |-> 1])

NextResults ==
    \/ \E t \in TaskIds : Tick(t)
    \/ \E e \in execs, o \in {HttpResponse(200), HttpResponse(404)} : Probe(e, o)
    \/ \E e \in execs, fault \in BOOLEAN : Record(e, fault)
    \/ Advance
    \/ \E p \in Procs :
          /\ OnlyClient(p)
          /\ \/ (execs = {} /\ dispatched = MaxExecs /\ ResultsRequest(p))
             \/ ResultsStore(p)

SpecResults == InitResults /\ [][NextResults]_vars

\* ------------------------- a running check deleted while results are read
\* one client deletes the check and lists its results, before or after, while
\* the executions dispatched so far finish
NextPurge ==
    \/ \E t \in TaskIds : Tick(t)
    \/ \E e \in execs, o \in {HttpResponse(200), HttpResponse(404)} : Probe(e, o)
    \/ \E e \in execs, fault \in BOOLEAN : Record(e, fault)
    \/ \E p \in Procs :
          /\ OnlyClient(p)
          /\ \/ DeleteRequest(p)
             \/ DeleteRegistry(p)
             \/ DeleteStore(p)
             \/ ResultsRequest(p)
             \/ ResultsStore(p)

SpecPurge == InitStop /\ [][NextPurge]_vars

\* ------------------------------------------------------ scripted executions
\* Lua::new(), the five load_from_std_lib calls and the photon table: run() up
\* to the evaluation of the script
LuaNew(e) ==
    /\ e \in execs
    /\ e.stage = "probing"
    /\ ~HasLua(lua, e)
    /\ LET l1 == Lua_new
           l2 == load_from_std_lib(l1, RunLibs[1])
           l3 == load_from_std_lib(l2, RunLibs[2])
           l4 == load_from_std_lib(l3, RunLibs[3])
           l5 == load_from_std_lib(l4, RunLibs[4])
           l6 == load_from_std_lib(l5, RunLibs[5]) IN
       lua' = lua \cup {[key |-> instance(e), libs |-> l6,
                          globals |-> {Global("photon", e)}]}
    /\ UNCHANGED <<store, nextId, enabledDefault, handlers, tasks, nextTask, lock,
                   pc, op, arg, check, result, started, reqs, query>>
    /\ UNCHANGED host
    /\ UNCHANGED sched

\* the names a script assigns to
ScriptGlobals == {"seen"}

\* the script assigns a global: it lands in the state the script runs in
LuaSet(e, g) ==
    /\ e \in execs
    /\ e.stage = "probing"
    /\ HasLua(lua, e)
    /\ Global(g, e) \notin LuaOf(lua, e).globals
    /\ lua' = (lua \ {LuaOf(lua, e)})
                 \cup {[LuaOf(lua, e) EXCEPT !.globals = @ \cup {Global(g, e)}]}
    /\ UNCHANGED <<store, nextId, enabledDefault, handlers, tasks, nextTask, lock,
                   pc, op, arg, check, result, started, reqs, query>>
    /\ UNCHANGED host
    /\ UNCHANGED sched

\* ctx.load(&self.script).eval() ends and run() returns
LuaEval(e) ==
    /\ HasLua(lua, e)
    /\ Probe(e, Returned("string", "Alles gut"))

NextScript ==
    \/ \E t \in TaskIds : Tick(t)
    \/ \E e \in execs : LuaNew(e)
    \/ \E e \in execs, g \in ScriptGlobals : LuaSet(e, g)
    \/ \E e \in execs : LuaEval(e)
    \/ \E e \in execs : Record(e, FALSE)
    \/ Advance

SpecScript == InitResults /\ [][NextScript]_vars

\* ------------------------------------------- the config-driven server's main
\* BasicCheckConfig { name, endpoint, interval: u64 } and
\* LuxuryCheckConfig { name, script_path, interval: u64 }; `readable` says
\* whether fs::read_to_string(&script_path) succeeds
CheckConfig(name, iv, readable) == [name |-> name, interval |-> iv, readable |-> readable]

ServiceNames == {"google", "vorona"}
ConfigIntervals == {0} \cup Intervals
BasicConfigs == {CheckConfig(n, iv, TRUE) : n \in ServiceNames, iv \in ConfigIntervals}
LuxuryConfigs ==
    {CheckConfig(n, iv, r) : n \in ServiceNames, iv \in ConfigIntervals, r \in BOOLEAN}

\* the config files with at most MaxId checks
ConfigFilesInBound ==
    UNION {{[basic |-> b, luxury |-> l] :
               b \in [1..n[1] -> BasicConfigs], l \in [1..n[2] -> LuxuryConfigs]} :
           n \in {m \in (0..MaxId) \X (0..MaxId) : m[1] + m[2] <= MaxId}}

\* the names of the basic checks alone
service_name_vec_basic_only(conf) == [i \in 1..Len(conf.basic) |-> conf.basic[i].name]

\* conf.basic_checks.iter().map(name).chain(conf.luxury_checks.iter().map(name))
service_name_vec(conf) ==
    [i \in 1..Len(conf.basic) |-> conf.basic[i].name]
        \o [i \in 1..Len(conf.luxury) |-> conf.luxury[i].name]

\* service_name_vec.for_each(|name| if cmp.insert(name, true).is_some()
\*     { duplicate_service_names = true; })
RECURSIVE for_each_insert(_, _, _)
for_each_insert(names, cmp, duplicate_service_names) ==
    IF names = <<>>
    THEN duplicate_service_names
    ELSE for_each_insert(Tail(names), cmp \cup {Head(names)},
                         duplicate_service_names \/ Head(names) \in cmp)

\* config::load_config_file once the file was read and parsed
load_config_file(file) ==
    IF for_each_insert(service_name_vec(file), {}, FALSE)
    THEN [ok |-> FALSE, panic |-> "invalid config: duplicate service names", conf |-> NoConfig]
    ELSE [ok |-> TRUE, panic |-> "", conf |-> file]

\* the process ends: every task and execution goes with it
Exit(why) ==
    /\ main' = [main EXCEPT !.alive = FALSE, !.at = "exited", !.panic = why]
    /\ tasks' = {}
    /\ execs' = {}

\* let conf = config::load_config_file(&cli_args.config_path);
LoadConfig ==
    /\ main.alive
    /\ main.at = "load"
    /\ LET r == load_config_file(main.file) IN
       IF r.ok
       THEN /\ main' = [main EXCEPT !.conf = r.conf, !.at = "starting", !.next = 1]
            /\ UNCHANGED <<tasks, execs>>
       ELSE Exit(r.panic)
    /\ UNCHANGED <<store, nextId, enabledDefault, handlers, nextTask, lock, pc, op, arg,
                   check, result, started, reqs, now, timers, dispatched, results,
                   query, lua, codec, agent>>

NumBasic == Len(main.conf.basic)
NumChecks == Len(main.conf.basic) + Len(main.conf.luxury)

\* tokio::time::interval(Duration::from_secs(service.interval)) panics when the
\* period is zero
ZeroPeriod(c) == c.interval = 0

\* one iteration of `for service in conf.basic_checks` or of
\* `for service in conf.luxury_checks`: the interval is made first, then (for a
\* luxury check) the script is read, `continue` if it cannot be, then the
\* timer task is spawned and pushed onto `handlers`
start(c, k) ==
    IF ZeroPeriod(c)
    THEN /\ Exit("period must be non-zero")
         /\ UNCHANGED <<timers, nextTask>>
    ELSE IF ~c.readable
    THEN /\ main' = [main EXCEPT !.next = k + 1]
         /\ UNCHANGED <<tasks, timers, nextTask, execs>>
    ELSE /\ tasks' = spawn(tasks, k, k)
         /\ timers' = [timers EXCEPT ![k] = interval(c.interval, now)]
         /\ nextTask' = k + 1
         /\ main' = [main EXCEPT !.next = k + 1]
         /\ UNCHANGED execs

ConfigAt(k) ==
    IF k <= NumBasic THEN main.conf.basic[k] ELSE main.conf.luxury[k - NumBasic]

StartCheck ==
    /\ main.alive
    /\ main.at = "starting"
    /\ main.next <= NumChecks
    /\ start(ConfigAt(main.next), main.next)
    /\ UNCHANGED <<store, nextId, enabledDefault, handlers, lock, pc, op, arg,
                   check, result, started, reqs, now, dispatched, results, query, lua,
                   codec, agent>>

\* tokio::select! on SIGINT / SIGTERM: the loops are done, main waits
AwaitSignal ==
    /\ main.alive
    /\ main.at = "starting"
    /\ main.next > NumChecks
    /\ main' = [main EXCEPT !.at = "serving"]
    /\ UNCHANGED <<store, nextId, enabledDefault, handlers, tasks, nextTask, lock, pc, op,
                   arg, check, result, started, reqs, query, lua, codec, agent>>
    /\ UNCHANGED sched

\* the process as main() finds it, started on config file `file`
InitMain(file) ==
    /\ store = [i \in Ids |-> IF i <= Len(file.basic) + Len(file.luxury)
                                THEN Row(1, TRUE) ELSE NoRow]
    /\ nextId = MaxId + 1
    /\ enabledDefault = "true"
    /\ handlers = [i \in Ids |-> 0]
    /\ tasks = {}
    /\ nextTask = 1
    /\ lock = 0
    /\ pc = [p \in Procs |-> "boot"]
    /\ op = [p \in Procs |-> "None"]
    /\ arg = [p \in Procs |-> 0]
    /\ check = [p \in Procs |-> NoCheck]
    /\ result = [p \in Procs |-> NoResult]
    /\ started = [p \in Procs |-> 0]
    /\ reqs = 0
    /\ now = 0
    /\ timers = [t \in TaskIds |-> NoTimer]
    /\ execs = {}
    /\ dispatched = 0
    /\ results = <<>>
    /\ query = [p \in Procs |-> NoQuery]
    /\ lua = {}
    /\ main = [file |-> file, conf |-> NoConfig, at |-> "load", next |-> 1,
               alive |-> TRUE, panic |-> ""]
    /\ agent = NoAgent

\* ---------------------------------------------------- loading a config file
InitConfig ==
    /\ \E file \in ConfigFilesInBound : InitMain(file)
    /\ codec = NoCodec

NextConfig == LoadConfig

SpecConfig == InitConfig /\ [][NextConfig]_vars

\* ------------------------------------- main() on a config of distinct names
DistinctNames(file) == ~for_each_insert(service_name_vec(file), {}, FALSE)

InitStartup ==
    /\ \E file \in {c \in ConfigFilesInBound : DistinctNames(c)} : InitMain(file)
    /\ codec = NoCodec

NextStartup ==
    \/ LoadConfig
    \/ StartCheck
    \/ AwaitSignal
    \/ \E t \in TaskIds : Tick(t)
    \/ \E e \in execs, o \in {HttpResponse(200), HttpResponse(503), BodyError} : Probe(e, o)
    \/ \E e \in execs, fault \in BOOLEAN : Record(e, fault)
    \/ Advance

SpecStartup == InitStartup /\ [][NextStartup]_vars

\* ------------------------------------------------------------ table names
MaxLen == 4

\* base64::URL_SAFE: the alphabet A-Z a-z 0-9 - _ by sextet value + 1, with
\* padding
URL_SAFE ==
    <<"A", "B", "C", "D", "E", "F", "G", "H", "I", "J", "K", "L", "M", "N", "O", "P",
      "Q", "R", "S", "T", "U", "V", "W", "X", "Y", "Z", "a", "b", "c", "d", "e", "f",
      "g", "h", "i", "j", "k", "l", "m", "n", "o", "p", "q", "r", "s", "t", "u", "v",
      "w", "x", "y", "z", "0", "1", "2", "3", "4", "5", "6", "7", "8", "9", "-", "_">>
Pad == "="
Symbol(v) == URL_SAFE[v + 1]
IsSymbol(c) == \E i \in 1..Len(URL_SAFE) : URL_SAFE[i] = c
ValueOf(c) == (CHOOSE i \in 1..Len(URL_SAFE) : URL_SAFE[i] = c) - 1

\* base64::encode_config(given, URL_SAFE): three bytes make four symbols, a
\* last group of one or two bytes makes two or three symbols and is padded
RECURSIVE encode_config(_)
encode_config(bytes) ==
    IF Len(bytes) = 0 THEN <<>>
    ELSE IF Len(bytes) = 1
    THEN <<Symbol(bytes[1] \div 4), Symbol((bytes[1] % 4) * 16), Pad, Pad>>
    ELSE IF Len(bytes) = 2
    THEN <<Symbol(bytes[1] \div 4),
           Symbol((bytes[1] % 4) * 16 + bytes[2] \div 16),
           Symbol((bytes[2] % 16) * 4), Pad>>
    ELSE <<Symbol(bytes[1] \div 4),
           Symbol((bytes[1] % 4) * 16 + bytes[2] \div 16),
           Symbol((bytes[2] % 16) * 4 + bytes[3] \div 64),
           Symbol(bytes[3] % 64)>>
             \o encode_config(SubSeq(bytes, 4, Len(bytes)))

\* the symbols of a text up to its trailing padding
RECURSIVE strip_padding(_)
strip_padding(text) ==
    IF Len(text) > 0 /\ text[Len(text)] = Pad
    THEN strip_padding(SubSeq(text, 1, Len(text) - 1))
    ELSE text

\* the bytes of a run of symbols whose length is not 1 modulo 4
RECURSIVE decode_symbols(_)
decode_symbols(sy) ==
    IF Len(sy) = 0 THEN <<>>
    ELSE IF Len(sy) = 2
    THEN <<ValueOf(sy[1]) * 4 + ValueOf(sy[2]) \div 16>>
    ELSE IF Len(sy) = 3
    THEN <<ValueOf(sy[1]) * 4 + ValueOf(sy[2]) \div 16,
           (ValueOf(sy[2]) % 16) * 16 + ValueOf(sy[3]) \div 4>>
    ELSE <<ValueOf(sy[1]) * 4 + ValueOf(sy[2]) \div 16,
           (ValueOf(sy[2]) % 16) * 16 + ValueOf(sy[3]) \div 4,
           (ValueOf(sy[3]) % 4) * 64 + ValueOf(sy[4])>>
             \o decode_symbols(SubSeq(sy, 5, Len(sy)))

\* the bits of the last symbol that belong to no byte
TrailingBits(sy) ==
    IF Len(sy) % 4 = 2 THEN ValueOf(sy[Len(sy)]) % 16
    ELSE IF Len(sy) % 4 = 3 THEN ValueOf(sy[Len(sy)]) % 4
    ELSE 0

\* base64::decode_config(b64, URL_SAFE): Err on a byte outside the alphabet, on
\* a length that leaves a lone symbol, on non-zero trailing bits and on
\* padding that is more than the group lacks; padding may be left out
decode_config(text) ==
    LET sy == strip_padding(text)
        pads == Len(text) - Len(sy) IN
    IF /\ \A i \in 1..Len(sy) : IsSymbol(sy[i])
       /\ Len(sy) % 4 # 1
       /\ pads <= (4 - (Len(sy) % 4)) % 4
       /\ TrailingBits(sy) = 0
    THEN [ok |-> TRUE, bytes |-> decode_symbols(sy)]
    ELSE [ok |-> FALSE, bytes |-> <<>>]

Continuation(b) == b >= 128 /\ b <= 191

\* std::str::from_utf8(&bytes[..]).is_ok()
RECURSIVE from_utf8(_)
from_utf8(bytes) ==
    IF Len(bytes) = 0 THEN TRUE
    ELSE LET b == bytes[1] IN
         IF b < 128 THEN from_utf8(Tail(bytes))
         ELSE IF b >= 194 /\ b <= 223
         THEN /\ Len(bytes) >= 2 /\ Continuation(bytes[2])
              /\ from_utf8(SubSeq(bytes, 3, Len(bytes)))
         ELSE IF b >= 224 /\ b <= 239
         THEN /\ Len(bytes) >= 3 /\ Continuation(bytes[2]) /\ Continuation(bytes[3])
              /\ (b = 224 => bytes[2] >= 160)
              /\ (b = 237 => bytes[2] <= 159)
              /\ from_utf8(SubSeq(bytes, 4, Len(bytes)))
         ELSE IF b >= 240 /\ b <= 244
         THEN /\ Len(bytes) >= 4 /\ Continuation(bytes[2]) /\ Continuation(bytes[3])
              /\ Continuation(bytes[4])
              /\ (b = 240 => bytes[2] >= 144)
              /\ (b = 244 => bytes[2] <= 143)
              /\ from_utf8(SubSeq(bytes, 5, Len(bytes)))
         ELSE FALSE

Quote == "\""
Prefix == <<"c", "h", "e", "c", "k", "_">>

\* an encoding that leaves the padding off
encode_table_name_unpadded(name) ==
    <<Quote>> \o Prefix \o strip_padding(encode_config(name)) \o <<Quote>>

\* format!("\"check_{}\"", base64::encode_config(given, base64::URL_SAFE))
encode_table_name(name) == <<Quote>> \o Prefix \o encode_config(name) \o <<Quote>>

\* given.strip_prefix("check_"), with `given` itself when there is no prefix
strip_prefix(text) ==
    IF Len(text) >= Len(Prefix) /\ SubSeq(text, 1, Len(Prefix)) = Prefix
    THEN SubSeq(text, Len(Prefix) + 1, Len(text))
    ELSE text

\* decode_table_name
decode_table_name(text) ==
    LET r == decode_config(strip_prefix(text)) IN
    IF ~r.ok THEN NoString
    ELSE IF ~from_utf8(r.bytes) THEN NoString
    ELSE SomeString(r.bytes)

\* the bytes service names are made of: t, e, s and the two bytes of e-acute
NameBytes == {116, 101, 115, 195, 169}
ServiceNameTexts ==
    {n \in UNION {[1..k -> NameBytes] : k \in 0..MaxLen} : from_utf8(n)}

\* the characters table names found in the database are made of
TableChars == {"d", "G", "w", "6", "k", "=", "!"}
TableNameTexts ==
    LET bodies == UNION {[1..k -> TableChars] : k \in 0..MaxLen} IN
    bodies \cup {Prefix \o b : b \in bodies}

InitCodec ==
    /\ InitMain(NoConfig)
    /\ \/ \E n \in ServiceNameTexts :
             codec = [NoCodec EXCEPT !.mode = "name", !.name = n, !.stage = "encode"]
       \/ \E g \in TableNameTexts :
             codec = [NoCodec EXCEPT !.mode = "table", !.given = g, !.stage = "decode"]

CodecFrame ==
    UNCHANGED <<store, nextId, enabledDefault, handlers, tasks, nextTask, lock, pc, op,
                arg, check, result, started, reqs, now, timers, execs, dispatched,
                results, query, lua, main, agent>>

\* let table = encode_table_name(service_name)
EncodeName ==
    /\ codec.stage = "encode"
    /\ codec' = [codec EXCEPT !.encoded = encode_table_name(codec.name),
                               !.stage = "unquote"]
    /\ CodecFrame

\* the table is listed by the database under its name without the quotes
ReadBack ==
    /\ codec.stage = "unquote"
    /\ codec' = [codec EXCEPT !.given = SubSeq(codec.encoded, 2, Len(codec.encoded) - 1),
                               !.stage = "decode"]
    /\ CodecFrame

\* decode_table_name(table_name)
DecodeName ==
    /\ codec.stage = "decode"
    /\ codec' = [codec EXCEPT !.decoded = decode_table_name(codec.given),
                               !.stage = "done"]
    /\ CodecFrame

NextCodec == EncodeName \/ ReadBack \/ DecodeName

SpecCodec == InitCodec /\ [][NextCodec]_vars

\* ------------------------------------------------------------- the agent
\* the checks of the agent's config file
AgentChecks == Ids

\* the Healthcheck message run() builds; n tells the executions apart
AgentResult(c, n, pass) == [check |-> c, n |-> n, pass |-> pass]

\* a listener that puts a result it could not deliver back on the channel
on_send_error_requeued(ch, r) == Append(ch, r)

\* if let Err(err) = res { error!(error = %err); continue; }: the result is
\* gone and the loop goes back to receiver.recv()
on_send_error(ch, r) == ch

AgentFrame ==
    UNCHANGED <<store, nextId, enabledDefault, handlers, tasks, nextTask, lock, pc, op,
                arg, check, result, started, reqs, now, timers, execs, dispatched,
                results, query, lua, main, codec>>

\* HealthcheckService::spawn: interval.tick().await returns and the loop
\* spawns check.run() as a task of its own
AgentTick(c) ==
    /\ agent.made < MaxExecs
    /\ agent' = [agent EXCEPT !.made = @ + 1,
                               !.running = @ \cup {[check |-> c, n |-> agent.made + 1]}]
    /\ AgentFrame

\* HealthcheckService::run: ping, build the result, self.chan.send(result);
\* the channel is unbounded and its receiver lives as long as the listener
AgentRun(e, pass) ==
    /\ e \in agent.running
    /\ LET r == AgentResult(e.check, e.n, pass) IN
       agent' = [agent EXCEPT !.running = @ \ {e},
                              !.chan = Append(@, r),
                              !.queued = Append(@, r)]
    /\ AgentFrame

\* while let Some(check_result) = receiver.recv().await
ListenerRecv ==
    /\ agent.at = "recv"
    /\ agent.chan # <<>>
    /\ agent' = [agent EXCEPT !.at = "rpc",
                               !.taken = <<Head(agent.chan)>>,
                               !.chan = Tail(@)]
    /\ AgentFrame

\* let res = client.create_healthcheck(check_result).await; on Err log and continue
ListenerSend(ok) ==
    /\ agent.at = "rpc"
    /\ LET r == agent.taken[1] IN
       agent' = [agent EXCEPT !.at = "recv",
                              !.taken = <<>>,
                              !.handled = Append(@, [r |-> r, ok |-> ok]),
                              !.chan = IF ok THEN @ ELSE on_send_error(@, r)]
    /\ AgentFrame

InitAgent ==
    /\ InitMain(NoConfig)
    /\ codec = NoCodec

NextAgent ==
    \/ \E c \in AgentChecks : AgentTick(c)
    \/ \E e \in agent.running, pass \in BOOLEAN : AgentRun(e, pass)
    \/ ListenerRecv
    \/ \E ok \in BOOLEAN : ListenerSend(ok)

SpecAgent == InitAgent /\ [][NextAgent]_vars

\* ----------------------------------------------------------------- claims
\* the one check of SpecEnable
EnableId == CHOOSE i \in Ids : store[i].present
InProgress(p) == ~Free(p)
Quiescent == \A p \in Procs : Free(p)
TasksOf(id) == {t \in tasks : t.id = id}
AlreadyRunning(r) == r.code = "InvalidArgument" /\ r.msg = "AlreadyRunning"

\* C1: every timer task that was started and not aborted is the task whose
\* handle the registry map holds for its check id.
C1_OneLiveTaskPerId == \A t \in tasks : handlers[t.id] = t.tid

\* C2: of the concurrent Enable requests for one existing check that is not
\* running, exactly one succeeds and starts a task; every other one that got
\* through its store calls fails with AlreadyRunning and starts no task.
C2_ExactlyOneEnableWins ==
    LET E == {p \in Procs : op[p] = "Enable" /\ arg[p] = EnableId /\ pc[p] = "done"}
        W == {p \in E : result[p].code = "Ok"}
    IN  /\ Cardinality(W) <= 1
        /\ Cardinality(TasksOf(EnableId)) = Cardinality(W)
        /\ \A p \in W : started[p] # 0 /\ handlers[EnableId] = started[p]
        /\ \A p \in E \ W :
              /\ started[p] = 0
              /\ result[p].msg # "StoreError" => AlreadyRunning(result[p]) /\ W # {}
        /\ (E = Procs /\ \A p \in E : result[p].msg # "StoreError") => Cardinality(W) = 1

C2_Witness ==
    /\ \A p \in Procs : op[p] = "Enable" /\ arg[p] = EnableId /\ pc[p] = "done"
    /\ \E p \in Procs : /\ result[p].code = "Ok"
                        /\ \A q \in Procs \ {p} : AlreadyRunning(result[q])

\* The steps of a handler that read or write the store row or the registry
\* entry of the id in arg (an insert works on a fresh id no request names yet).
TouchPcs == {"c_registry", "x_registry", "x_delete", "e_get", "e_update",
             "e_registry", "d_update", "d_registry"}
\* p has done the first of its two mutations of an existing check (store,
\* registry) and not the second
InWindow(p) ==
    /\ pc[p] \in {"c_registry", "e_registry", "d_registry", "x_delete"}
    /\ store[arg[p]].present

\* C3: between the store mutation and the registry mutation of a control
\* operation on an id, no other control operation takes a step on that id.
C3_NoStepInsideWindow ==
    [][\A p, q \in Procs :
          (p # q /\ InWindow(p) /\ pc[q] \in TouchPcs /\ arg[q] = arg[p])
              => pc'[q] = pc[q]]_vars

\* C4: when no control operation is in progress, the registry has an entry
\* for an id exactly when the store has an enabled definition of that id.
C4_RegistryMatchesStore ==
    Quiescent =>
        \A i \in Ids : contains_key(handlers, i) <=> (store[i].present /\ store[i].enabled)

\* C5: when Create returns success, the store holds the definition under the
\* assigned id with enabled=true, the registry holds a running task for it,
\* and the returned definition equals the stored one.
C5_CreateStoredEnabled ==
    [][\A p \in Procs :
          (pc[p] = "c_registry" /\ pc'[p] = "done" /\ result'[p].code = "Ok")
              => /\ store'[arg[p]].present
                 /\ store'[arg[p]].enabled
                 /\ contains_key(handlers', arg[p])
                 /\ \E t \in tasks' : t.id = arg[p] /\ t.tid = handlers'[arg[p]]
                 /\ result'[p].check = FromSchema(arg[p], store'[arg[p]])]_vars

\* C6: when the store insert of a Create fails, the handler returns an error
\* at once and the registry and the set of tasks are as before.
C6_InsertFailureLeavesRegistry ==
    [][\A p \in Procs :
          (pc[p] = "c_insert" /\ pc'[p] # "c_insert" /\ ~store'[nextId].present)
              => /\ pc'[p] = "done"
                 /\ result'[p].code = "Internal"
                 /\ started'[p] = 0
                 /\ handlers' = handlers /\ tasks' = tasks /\ store' = store]_vars

C6_Witness ==
    \E p \in Procs : /\ op[p] = "Create" /\ pc[p] = "done"
                     /\ result[p].code = "Internal" /\ started[p] = 0

\* C7: once Delete(id) has returned success and no other control operation on
\* id is in progress, id has no store row, no registry entry and no task.
C7_DeletedStaysGone ==
    \A p \in Procs :
        (/\ op[p] = "Delete" /\ pc[p] = "done" /\ result[p].code = "Ok"
         /\ \A q \in Procs \ {p} : InProgress(q) => arg[q] # arg[p] /\ pc[q] # "c_insert")
            => /\ ~store[arg[p]].present
               /\ ~contains_key(handlers, arg[p])
               /\ TasksOf(arg[p]) = {}

\* C8: Delete of an id that has no store row answers NotFound.
C8_DeleteAbsentIsNotFound ==
    [][\A p \in Procs :
          (/\ pc[p] = "x_delete" /\ pc'[p] = "done"
           /\ ~store[arg[p]].present /\ result'[p].msg # "StoreError")
              => result'[p].code = "NotFound"]_vars

\* C9: Enable of an id that has no store row answers NotFound and changes
\* neither the store nor the registry nor the tasks.
C9_EnableAbsentIsNotFound ==
    [][\A p \in Procs :
          (/\ pc[p] = "e_get" /\ pc'[p] # "e_get"
           /\ ~store[arg[p]].present /\ result'[p].msg # "StoreError")
              => /\ pc'[p] = "done"
                 /\ result'[p].code = "NotFound"
                 /\ started'[p] = 0
                 /\ store' = store /\ handlers' = handlers /\ tasks' = tasks]_vars

\* C10: when Enable starts the task, the definition it read is in the store:
\* no Delete of the id completes between Enable's read and its registry insert.
C10_EnableStartsExistingCheck ==
    [][\A p \in Procs :
          (pc[p] = "e_registry" /\ started'[p] # 0) => store[arg[p]].present]_vars

NotRunning(r) == r.code = "InvalidArgument" /\ r.msg = "NotRunning"

\* C11: Enable of an id that has a registry entry answers AlreadyRunning, a
\* client error (InvalidArgument) and not Internal; the enabled=true update was
\* issued before (a row that is still there is enabled), the entry and its task
\* stay as they are and the request starts no task.
C11_EnableOfRunningCheck ==
    [][\A p \in Procs :
          (pc[p] = "e_registry" /\ pc'[p] # "e_registry" /\ contains_key(handlers, arg[p]))
              => /\ pc'[p] = "done"
                 /\ AlreadyRunning(result'[p])
                 /\ result'[p].code # "Internal"
                 /\ store' = store
                 /\ store[arg[p]].present => store[arg[p]].enabled
                 /\ handlers' = handlers /\ tasks' = tasks
                 /\ started'[p] = 0
                 /\ lock = p /\ lock' = 0]_vars

C11_Witness ==
    \E p \in Procs :
        /\ op[p] = "Enable" /\ pc[p] = "done" /\ AlreadyRunning(result[p])
        /\ contains_key(handlers, arg[p])
        /\ store[arg[p]].present /\ store[arg[p]].enabled
        /\ Cardinality(TasksOf(arg[p])) = 1

\* C12: Disable writes enabled=false while it holds the registry lock; then,
\* still holding it, it removes the entry of the id and aborts its task and
\* answers Ok, or, when the id has no entry, answers InvalidState
\* (InvalidArgument "not running") and leaves the registry alone.
C12_DisableUnderLock ==
    [][\A p \in Procs :
          /\ (pc[p] = "d_update" /\ pc'[p] = "d_registry")
                => /\ lock = p /\ lock' = p
                   /\ store'[arg[p]].present => ~store'[arg[p]].enabled
          /\ (pc[p] = "d_registry" /\ pc'[p] # "d_registry")
                => /\ lock = p /\ lock' = 0
                   /\ pc'[p] = "done"
                   /\ store' = store
                   /\ IF contains_key(handlers, arg[p])
                      THEN /\ result'[p].code = "Ok"
                           /\ store[arg[p]].present => ~store[arg[p]].enabled
                           /\ ~contains_key(handlers', arg[p])
                           /\ \A t \in tasks' : t.tid # handlers[arg[p]]
                           /\ \A t \in tasks : t.tid # handlers[arg[p]] => t \in tasks'
                      ELSE /\ NotRunning(result'[p])
                           /\ handlers' = handlers /\ tasks' = tasks]_vars

\* a Disable that succeeded and a second Disable of the same id that did not
C12_Witness ==
    \E p, q \in Procs :
        /\ op[p] = "Disable" /\ pc[p] = "done" /\ result[p].code = "Ok"
        /\ op[q] = "Disable" /\ pc[q] = "done" /\ NotRunning(result[q])
        /\ arg[p] = arg[q]
        /\ store[arg[p]].present /\ ~store[arg[p]].enabled
        /\ TasksOf(arg[p]) = {}

\* C13: Disable of an id that has no store row answers NotFound.
C13_DisableAbsentIsNotFound ==
    [][\A p \in Procs :
          (/\ op[p] = "Disable" /\ pc[p] = "d_registry" /\ pc'[p] = "done"
           /\ ~store[arg[p]].present)
              => result'[p].code = "NotFound"]_vars

\* the executions a step dispatches
Dispatched == {e \in execs' : e.stage = "probing" /\ e \notin execs}

\* C14: once a Disable of an id has answered Ok, and until the id gets a
\* registry entry again, no execution is dispatched for the id: only the
\* executions in flight at the stop can still insert a result.
C14_NoDispatchAfterDisable ==
    [][\A p \in Procs :
          (/\ op[p] = "Disable" /\ pc[p] = "done" /\ result[p].code = "Ok"
           /\ ~contains_key(handlers, arg[p]))
              => \A e \in Dispatched : e.id # arg[p]]_vars

\* the result an execution in its recording stage hands to the store
ResultOf(e) == HealthcheckResult(e.id, e.start, e.pass, e.message)

\* C15: a step that stops a timer task (the abort of Disable or Delete) leaves
\* every execution in flight as it is, and an execution whose task is stopped
\* goes on as any other: its probe returns and it attempts its insert, which
\* appends its result unless the store refuses or fails.
C15_StopSparesExecutions ==
    [][/\ tasks' # tasks => execs' = execs
       /\ \A e \in execs :
            ~Alive(e.tid) =>
               \/ e \in execs'
               \/ /\ e.stage = "probing"
                  /\ \E o \in SampleOutcomes :
                        execs' = (execs \ {e}) \cup
                                 {[e EXCEPT !.stage = "recording", !.outcome = o,
                                            !.pass = verdict(o).pass,
                                            !.message = verdict(o).message]}
               \/ /\ e.stage = "recording"
                  /\ execs' = execs \ {e}
                  /\ \/ results' = results
                     \/ /\ store[e.id].present
                        /\ results' = Append(results, ResultOf(e))]_vars

\* an execution about to insert its result after a Disable stopped its task
C15_Witness ==
    \E e \in execs, p \in Procs :
        /\ op[p] = "Disable" /\ pc[p] = "done" /\ result[p].code = "Ok" /\ arg[p] = e.id
        /\ ~Alive(e.tid)
        /\ e.stage = "recording"
        /\ store[e.id].present

\* C16: a timer's first deadline is the time it was made, every tick is taken
\* at its deadline and sets the next deadline one period after the deadline
\* that fired, whether or not executions of the same check are still in
\* flight; no live timer is ever behind the clock.
C16_TicksOnSchedule ==
    /\ [][\A t \in TaskIds :
            (Alive(t) /\ timers'[t] # timers[t])
                => /\ now = timers[t].deadline
                   /\ timers'[t].deadline = timers[t].deadline + timers[t].period
                   /\ \E e \in Dispatched : e.tid = t /\ e.at = now /\ e.start = now]_vars
    /\ [](\A t \in TaskIds : Alive(t) => timers[t].deadline >= now)
    /\ [](\A e \in execs : e.start = e.at /\ e.at % timers[e.tid].period = 0)

\* two executions of one check in flight: the one of a tick and the one of the
\* tick before it, whose probe has not returned yet
C16_Witness ==
    \E e1, e2 \in execs :
        /\ e1.tid = e2.tid
        /\ e1.stage = "probing"
        /\ e2.at = e1.at + timers[e1.tid].period
        /\ now = e2.at

\* C17: while executions of other checks are in flight, however long, the
\* timer of a check is not held back: it is never behind the clock, and the
\* clock moves on only when every live timer has taken the ticks that are due.
C17_SlowExecutionStallsNoTimer ==
    /\ [](\A t \in TaskIds :
            (Alive(t) /\ \E e \in execs : e.tid # t) => timers[t].deadline >= now)
    /\ [][now' # now =>
            \A t \in TaskIds : Alive(t) => timers[t].deadline > now]_vars

\* the probe of an execution dispatched at time 0 has not returned, and the
\* timer of another check has just dispatched at a later time
C17_Witness ==
    \E e1, e2 \in execs :
        /\ e1.tid # e2.tid
        /\ e1.stage = "probing" /\ e1.at = 0
        /\ e2.at = now /\ now > 0

\* the classification rule of the specification: 2xx for a GET, a return
\* without error for a script
RuleSatisfied(o) ==
    \/ o.kind = "response" /\ o.status \in 200..299
    \/ o.kind = "returned"

\* C18: the step that ends an execution appends exactly one result, whose pass
\* field is true exactly when the classification rule was satisfied.
C18_ExactlyOneResult ==
    [][\A e \in execs :
          (e.stage = "recording" /\ e \notin execs')
              => /\ Len(results') = Len(results) + 1
                 /\ results'[Len(results')].id = e.id
                 /\ results'[Len(results')].pass = RuleSatisfied(e.outcome)]_vars

\* C19: an execution that got the answer to its GET is classified at once:
\* 200..299 passes with an empty message, any other status fails with the
\* status line as message, a transport failure fails with the error text; the
\* classified execution never probes again.
C19_HttpClassification ==
    /\ [](\A e \in execs :
            (e.stage = "recording" /\ e.outcome.kind \in {"response", "transport"})
                => IF e.outcome.kind = "transport"
                   THEN ~e.pass /\ e.message = e.outcome.text
                   ELSE IF e.outcome.status \in 200..299
                   THEN e.pass /\ e.message = ""
                   ELSE /\ ~e.pass
                        /\ e.message = to_string(e.outcome.status)
                        /\ e.outcome.status = 101 => e.message = "101 Switching Protocols"
                        /\ e.outcome.status = 304 => e.message = "304 Not Modified"
                        /\ e.outcome.status = 404 => e.message = "404 Not Found"
                        /\ e.outcome.status = 500 => e.message = "500 Internal Server Error")
    /\ [][\A e \in execs :
            e.stage = "recording" => (e \in execs' \/ execs' = execs \ {e})]_vars

\* the GET was answered 304 and the execution is about to record a failure
C19_Witness ==
    \E e \in execs :
        /\ e.stage = "recording"
        /\ e.outcome = HttpResponse(304)
        /\ ~e.pass /\ e.message = "304 Not Modified"

\* the script outcomes of an execution: everything but the answers to a GET
ScriptKinds == {"returned", "raised", "nobridge", "bodyerror"}

\* C20: a scripted execution passes exactly when the script returned, with the
\* returned value as message, and fails exactly when it raised or the bridge
\* could not be installed, with the error text as message; every scripted
\* execution gets as far as recording a result.
C20_ScriptClassification ==
    /\ [](\A e \in execs :
            (e.stage = "recording" /\ e.outcome.kind \in ScriptKinds)
                => /\ e.pass = (e.outcome.kind = "returned")
                   /\ e.message = e.outcome.text)
    /\ [][\A e \in execs :
            e.stage = "probing" => \E e2 \in execs' : e2.tid = e.tid /\ e2.at = e.at]_vars

\* C21: every recorded result with pass = TRUE has an empty message.
C21_PassHasNoMessage ==
    \A i \in 1..Len(results) : results[i].pass => results[i].message = ""

\* C21 (amended): a passing result of a GET has an empty message, a passing
\* result of a script carries what the script returned, and nothing else makes
\* a passing result; what is appended is the result of the execution that ends.
C21_PassMessageIsScriptReturn ==
    /\ [](\A e \in execs :
            (e.stage = "recording" /\ e.pass)
                => \/ e.outcome.kind = "response" /\ e.message = ""
                   \/ e.outcome.kind = "returned" /\ e.message = e.outcome.text)
    /\ [][results' # results =>
            \E e \in execs :
                e.stage = "recording" /\ results' = Append(results, ResultOf(e))]_vars

\* a passing result recorded with the message its script returned
C21_Witness ==
    \E i \in 1..Len(results) :
        results[i].pass /\ results[i].message = "Alles gut"

\* C22: when the insert of an execution fails, the step only ends that
\* execution: no result is appended, the execution is not put back, every
\* timer task and timer stays as it is, and the task of the execution can take
\* its next tick.
C22_PersistFailureOnlyLogged ==
    [][\A e \in execs :
          (e.stage = "recording" /\ e \notin execs' /\ results' = results)
              => /\ execs' = execs \ {e}
                 /\ tasks' = tasks
                 /\ timers' = timers
                 /\ dispatched' = dispatched
                 /\ Alive(e.tid) => Alive(e.tid)']_vars

\* the result of the first tick of a check was lost and a later execution of
\* the same check has inserted its own
C22_Witness ==
    \E i \in 1..Len(results) :
        /\ results[i].start > 0
        /\ \A j \in 1..Len(results) : results[j].id = results[i].id => results[j].start > 0
        /\ \A e \in execs : e.id = results[i].id => e.at > 0

\* C23: at the step that opens the service to requests the registry holds an
\* entry, with one live task, for exactly the ids whose row has enabled =
\* TRUE; until that step no request has been accepted.
C23_StartupReconciliation ==
    /\ [][(Booting /\ ~Booting')
            => \A id \in Ids :
                  /\ contains_key(handlers', id)
                        <=> (store'[id].present /\ store'[id].enabled)
                  /\ Cardinality({t \in tasks' : t.id = id})
                        = IF contains_key(handlers', id) THEN 1 ELSE 0]_vars
    /\ [](Booting => reqs = 0 /\ \A p \in Procs : op[p] = "None")

\* the service has just opened: an enabled definition is running and a
\* disabled one is not
C23_Witness ==
    /\ \A p \in Procs : pc[p] = "idle"
    /\ reqs = 0
    /\ \E i, j \in Ids :
          /\ store[i].present /\ store[i].enabled /\ contains_key(handlers, i)
          /\ store[j].present /\ ~store[j].enabled /\ ~contains_key(handlers, j)

\* C24: a Get, Delete, Enable or Disable request that carries no id is
\* answered InvalidArgument ("id is a required argument") in the very step
\* that takes it: the handler never reaches a store or registry step, and the
\* step changes neither the store nor the registry, the tasks or the results.
C24_NoIdRejected ==
    /\ [](\A p \in Procs :
             (op[p] \in IdOps /\ arg[p] = 0)
                => /\ pc[p] = "done"
                   /\ result[p] = Status("InvalidArgument", "IdRequired"))
    /\ [][(reqs' # reqs /\ \E p \in Procs : op'[p] \in IdOps /\ arg'[p] = 0)
            => UNCHANGED <<store, handlers, tasks, nextTask, lock, timers, results>>]_vars

\* a Delete without id was refused while a definition was there to delete
C24_Witness ==
    \E p \in Procs :
        /\ op[p] = "Delete" /\ arg[p] = 0 /\ pc[p] = "done"
        /\ result[p].code = "InvalidArgument"
        /\ \E id \in Ids : store[id].present /\ contains_key(handlers, id)

\* C25: every definition in the store, and every definition a timer task was
\* started for, has interval > 0.
C25_IntervalPositive ==
    /\ \A id \in Ids : store[id].present => store[id].interval > 0
    /\ \A x \in tasks : store[x.id].present => store[x.id].interval > 0

\* C26: Get changes neither the store nor the registry, returns the stored
\* definition when the row exists, and answers NotFound when it does not.
C26_GetIsPureReadOrNotFound ==
    [][\A p \in Procs :
          (pc[p] = "g_get" /\ pc'[p] # "g_get")
              => /\ store' = store /\ handlers' = handlers /\ tasks' = tasks
                 /\ result'[p].msg # "StoreError"
                       => IF store[arg[p]].present
                          THEN result'[p] = OkResponse(FromSchema(arg[p], store[arg[p]]))
                          ELSE result'[p].code = "NotFound"]_vars

\* the stored definitions whose enabled flag is en
Matching(en) == {FromSchema(i, store[i]) : i \in {j \in Ids : store[j].present /\ store[j].enabled = en}}

\* C27: List changes neither the store nor the registry; with the filter taken
\* as TRUE and the limit as 10 when the request omits them, a successful List
\* returns stored definitions whose enabled flag equals the filter, at most
\* limit of them, and as many as limit allows.
C27_ListFilteredAndLimited ==
    [][\A p \in Procs :
          (pc[p] = "l_list" /\ pc'[p] # "l_list")
              => LET en == IF query[p].enabled.some THEN query[p].enabled.val ELSE TRUE
                     lim == IF query[p].limit.some THEN query[p].limit.val ELSE 10 IN
                 /\ store' = store /\ handlers' = handlers /\ tasks' = tasks
                 /\ results' = results
                 /\ result'[p].code = "Ok"
                       => /\ result'[p].list \subseteq Matching(en)
                          /\ Cardinality(result'[p].list) <= lim
                          /\ Cardinality(result'[p].list) = Min(lim, Cardinality(Matching(en)))]_vars

\* a List answered with the enabled definition while a disabled one is stored
C27_Witness ==
    \E p \in Procs :
        /\ op[p] = "List" /\ pc[p] = "done" /\ result[p].code = "Ok"
        /\ result[p].list # {}
        /\ \A c \in result[p].list : c.enabled
        /\ \E id \in Ids : store[id].present /\ ~store[id].enabled

\* the positions in the results table of the results of check id
PositionsOf(id) == {i \in 1..Len(results) : results[i].id = id}
\* the position of the k-th newest of them
Newest(id, k) ==
    CHOOSE i \in PositionsOf(id) : Cardinality({j \in PositionsOf(id) : j > i}) = k - 1

\* C28: with the limit taken as 10 when the request omits it, a successful
\* ListResults(id, limit) returns min(limit, number of results of id) results,
\* the k-th of them being the k-th most recently inserted result of check id.
C28_ListResultsNewestFirst ==
    [][\A p \in Procs :
          (pc[p] = "r_list" /\ pc'[p] # "r_list" /\ result'[p].code = "Ok")
              => LET lim == IF query[p].limit.some THEN query[p].limit.val ELSE 10
                     rows == result'[p].rows IN
                 /\ Len(rows) <= lim
                 /\ Len(rows) = Min(lim, Cardinality(PositionsOf(arg[p])))
                 /\ \A k \in 1..Len(rows) :
                       /\ rows[k].id = arg[p]
                       /\ rows[k] = results[Newest(arg[p], k)]]_vars

\* two results of one check came back, the later one first, while the table
\* also holds a result of another check
C28_Witness ==
    \E p \in Procs :
        /\ op[p] = "ListResults" /\ pc[p] = "done" /\ result[p].code = "Ok"
        /\ Len(result[p].rows) = 2
        /\ result[p].rows[1].start > result[p].rows[2].start
        /\ \E i \in 1..Len(results) : results[i].id # arg[p]

\* C29: the interpreter a scripted execution runs in holds nothing written by
\* another execution, be it of the same check or of another one, finished or
\* still running: every global in it was set by this execution.
C29_InterpreterPerExecution ==
    \A e \in execs :
        (e.stage = "probing" /\ HasLua(lua, e))
            => \A g \in LuaOf(lua, e).globals : g.by = ExecutionOf(e)

\* two executions of one check overlap, each in its interpreter with the
\* global it assigned, while an execution of another check has one too
C29_Witness ==
    \E e1, e2, e3 \in execs :
        /\ e1 # e2 /\ e1.tid = e2.tid /\ e3.tid # e1.tid
        /\ \A e \in {e1, e2, e3} :
              /\ e.stage = "probing" /\ HasLua(lua, e)
              /\ Global("seen", e) \in LuaOf(lua, e).globals

\* C30: the libraries loaded into the interpreter of a scripted execution are
\* among base, table, string, utf8 and math; the only other thing the script
\* is given is the photon table.
C30_MinimalLibraries ==
    \A x \in lua :
        /\ x.libs \subseteq {"base", "table", "string", "utf8", "math"}
        /\ \A g \in x.globals : g.name \in {"photon"} \cup ScriptGlobals

\* the check at position k of the config can run
Usable(k) == ~ZeroPeriod(ConfigAt(k)) /\ ConfigAt(k).readable

\* C31: a check that cannot be started or whose execution fails never ends
\* the process, and every usable check the start-up loops have passed has its
\* timer task.
C31_CheckFailureContained ==
    /\ main.alive
    /\ main.at \in {"starting", "serving"}
          => \A k \in 1..NumChecks : (k < main.next /\ Usable(k)) => Alive(k)

\* two positions of the config file carry one service name
SharesName(file) ==
    LET names == [i \in 1..Len(file.basic) |-> file.basic[i].name]
                     \o [i \in 1..Len(file.luxury) |-> file.luxury[i].name] IN
    \E i, j \in 1..Len(names) : i # j /\ names[i] = names[j]

\* C32: loading a config file in which two checks, of whatever kinds, share a
\* service name fails with 'invalid config: duplicate service names' and the
\* process ends; loading one whose names are pairwise distinct yields the
\* file's config as it is.
C32_DuplicateNamesRejected ==
    [][(main.at = "load" /\ main'.at # "load")
          => IF SharesName(main.file)
             THEN /\ ~main'.alive
                  /\ main'.panic = "invalid config: duplicate service names"
             ELSE /\ main'.alive
                  /\ main'.conf = main.file]_vars

\* a basic check and a luxury check of one name: the load has failed
C32_Witness ==
    /\ ~main.alive
    /\ main.panic = "invalid config: duplicate service names"
    /\ Len(main.file.basic) = 1 /\ Len(main.file.luxury) = 1
    /\ main.file.basic[1].name = main.file.luxury[1].name

\* the part of an encoded table name between "check_ and the closing quote
BodyOf(text) == SubSeq(text, Len(Prefix) + 2, Len(text) - 1)

\* C33: the encoded table name of a service name s is a double quote, check_,
\* the padded URL-safe base64 text of s (four characters for every three
\* bytes begun) and a double quote; decoding it without its quotes gives s
\* back; decoding any other text gives None when the text after the prefix
\* has a character outside the base64 alphabet or its bytes are not UTF-8,
\* and a UTF-8 string otherwise.
C33_TableNameRoundTrip ==
    /\ (codec.mode = "name" /\ codec.stage # "encode")
          => /\ codec.encoded[1] = Quote
             /\ codec.encoded[Len(codec.encoded)] = Quote
             /\ SubSeq(codec.encoded, 2, Len(Prefix) + 1) = Prefix
             /\ Len(BodyOf(codec.encoded)) = 4 * ((Len(codec.name) + 2) \div 3)
             /\ \A i \in 1..Len(BodyOf(codec.encoded)) :
                   IsSymbol(BodyOf(codec.encoded)[i]) \/ BodyOf(codec.encoded)[i] = Pad
    /\ (codec.mode = "name" /\ codec.stage = "done")
          => codec.decoded = SomeString(codec.name)
    /\ (codec.mode = "table" /\ codec.stage = "done")
          => /\ (\E i \in 1..Len(codec.given) : codec.given[i] = "!") => ~codec.decoded.some
             /\ codec.decoded.some => from_utf8(codec.decoded.val)
             /\ ~codec.decoded.some => codec.decoded = NoString

\* "test" was encoded as "check_dGVzdA==" and read back
C33_Witness ==
    /\ codec.mode = "name" /\ codec.stage = "done"
    /\ codec.name = <<116, 101, 115, 116>>
    /\ codec.encoded = <<Quote>> \o Prefix
                          \o <<"d", "G", "V", "z", "d", "A", "=", "=">> \o <<Quote>>
    /\ codec.decoded.some

\* the steps at which a handler is about to change the store
StoreSteps == {"c_insert", "e_update", "d_update", "x_delete"}

\* C34: in Create, Enable, Disable and Delete the store is changed before the
\* registry: once a handler has changed the registry or a task it has no
\* store change left to make.
C34_StoreBeforeRegistry ==
    [][\A p \in Procs :
          (pc'[p] # pc[p] /\ (handlers' # handlers \/ tasks' # tasks))
              => pc'[p] \notin StoreSteps]_vars

\* C35: for one check id the results are in the table in the order of their
\* ticks: start times never decrease along the insertion order.
C35_ResultsInTickOrder ==
    \A i, j \in 1..Len(results) :
        (i < j /\ results[i].id = results[j].id) => results[i].start <= results[j].start

\* C35 (amended): a result is inserted behind every result already in the
\* table, and when a tick dispatches an execution every result of its check
\* that is already in the table started no later than the new execution; so
\* results follow the order in which executions finish, which is the tick
\* order except for executions that overlap.
C35_ResultsInCompletionOrder ==
    [][/\ results' # results => \E e \in execs :
              results' = Append(results, HealthcheckResult(e.id, e.start, e.pass, e.message))
       /\ dispatched' # dispatched
            => \A e \in execs' \ execs : \A i \in 1..Len(results) :
                  results[i].id = e.id => results[i].start <= e.start]_vars

\* two executions of one check overlapped and the later tick's result was
\* inserted first
C35_Witness ==
    \E i, j \in 1..Len(results) :
        /\ i < j /\ results[i].id = results[j].id
        /\ results[i].start > results[j].start

\* C36: the definition a successful Enable returns is the definition the store
\* holds at that moment, so its enabled field is true.
C36_EnableReturnsStored ==
    [][\A p \in Procs :
          (op[p] = "Enable" /\ pc[p] # "done" /\ pc'[p] = "done" /\ result'[p].code = "Ok")
              => /\ store'[arg[p]].present
                 /\ result'[p].check = FromSchema(arg[p], store'[arg[p]])
                 /\ result'[p].check.enabled]_vars

\* C37: every persisted result refers to a check that has a definition in the
\* store: a delete takes the check's results with it, an execution that
\* finishes after the delete inserts nothing, and ListResults for a deleted id
\* returns an empty list.
C37_ResultsHaveDefinition ==
    [][/\ \A i \in 1..Len(results) : store[results[i].id].present
       /\ \A i \in 1..Len(results') : store'[results'[i].id].present
       /\ \A p \in Procs :
             (/\ op[p] = "ListResults" /\ pc[p] = "r_list" /\ pc'[p] = "done"
              /\ result'[p].code = "Ok" /\ ~store[arg[p]].present)
                 => result'[p].rows = <<>>
       /\ \A p \in Procs :
             (pc[p] = "x_delete" /\ pc'[p] = "done" /\ result'[p].code = "Ok")
                 => \A i \in 1..Len(results') : results'[i].id # arg[p]]_vars

\* check 1 was deleted after it had dispatched an execution, every execution is
\* over, and a ListResults for it has been answered
C37_Witness ==
    /\ ~store[1].present /\ nextId > 1
    /\ dispatched >= 1 /\ execs = {}
    /\ results = <<>>
    /\ \E p \in Procs : /\ op[p] = "ListResults" /\ arg[p] = 1
                        /\ pc[p] = "done" /\ result[p].code = "Ok"

\* C38: a handler that has returned does not hold the registry lock, whichever
\* way it returned, and every control request that was accepted gets its
\* response: no request waits for the lock forever.
C38_LockReleasedAndRequestsReturn ==
    /\ [](\A p \in Procs : Free(p) => lock # p)
    /\ \A p \in Procs : (~Free(p)) ~> (pc[p] = "done")

\* an Enable or a Disable returned early, with an error, from inside the
\* block that holds the guard, while another handler was waiting for the lock
C38_Witness ==
    \E p, q \in Procs :
        /\ p # q
        /\ op[p] \in {"Enable", "Disable"} /\ pc[p] = "done"
        /\ result[p].code \in {"Internal", "InvalidArgument"}
        /\ result[p].msg \in {"StoreError", "AlreadyRunning", "NotRunning"}
        /\ pc[q] \in {"e_lock", "d_lock", "c_registry", "x_registry"}
        /\ lock = 0

\* C39: an Enable or a Disable that returns an error has left the registry as
\* it was: the only step of such a handler that inserts or removes an entry,
\* or starts or aborts a task, is the step with which it returns success.
C39_FailedToggleLeavesRegistry ==
    [][\A p \in Procs :
          (/\ op'[p] \in {"Enable", "Disable"}
           /\ pc'[p] # pc[p]
           /\ (handlers' # handlers \/ tasks' # tasks))
              => (pc'[p] = "done" /\ result'[p].code = "Ok")]_vars

\* an Enable of the running check was refused and the check's first task is
\* still the one in the registry
C39_Witness ==
    \E p \in Procs :
        /\ op[p] = "Enable" /\ pc[p] = "done"
        /\ result[p] = Status("InvalidArgument", "AlreadyRunning")
        /\ handlers[arg[p]] = 1
        /\ tasks = {[tid |-> 1, id |-> 1]}

\* C40: in the agent every result an execution produced was queued once, and
\* the one listener hands the results to the server in the order in which
\* they were queued; a result whose delivery failed is not tried again and the
\* listener goes on with the results queued after it.
C40_AgentForwardsInOrder ==
    LET q == agent.queued
        h == agent.handled
    IN  /\ \A i, j \in 1..Len(q) : i # j => q[i] # q[j]
        /\ Len(q) + Cardinality(agent.running) = agent.made
        /\ Len(h) <= Len(q)
        /\ \A i \in 1..Len(h) : h[i].r = q[i]
        /\ agent.at = "recv" => Len(h) + Len(agent.chan) = Len(q)
        /\ agent.at = "rpc" => /\ Len(h) + 1 + Len(agent.chan) = Len(q)
                               /\ agent.taken = <<q[Len(h) + 1]>>
        /\ \A i \in 1..Len(agent.chan) :
              agent.chan[i] = q[Len(q) - Len(agent.chan) + i]

\* a delivery failed and the result queued after it was delivered
C40_Witness ==
    /\ Len(agent.handled) >= 2
    /\ ~agent.handled[1].ok
    /\ agent.handled[2].ok
    /\ agent.handled[2].r = agent.queued[2]

====
